---- MODULE Spec2Model ----
(***************************************************************************)
(* A model of cortex-browser-env: the arena Document (dom.rs), its         *)
(* attribute accessors (dom.rs, element.rs), the markup parser             *)
(* (parser.rs), the style-sheet parser (css.rs), the cascade (style.rs)    *)
(* and the selector engine (query.rs).                                     *)
(*                                                                         *)
(* Text is modelled as a sequence of one-character strings, so that the    *)
(* scanners read it character by character as the code does.  Node         *)
(* indices are the code's, starting at 0: node i is nodes[i + 1].          *)
(* An Option is a sequence of length 0 (None) or 1 (Some).                 *)
(***************************************************************************)
EXTENDS Integers, Sequences, FiniteSets, TLC

VARIABLES
    nodes,              \* Document.nodes, the arena
    panicked,           \* TRUE once an operation has panicked
    lastOp,             \* the call made last: its name, arguments and result
    cyc,                \* TRUE once append_child put a node under itself or a descendant
    nOps,               \* number of calls made so far
    html,               \* parse_html: the input text
    pos,                \* parse_html: the place of the next unread character
    pc,                 \* parse_html: where the scan stands
    current_parent_idx, \* parse_html: the insertion parent
    tag_name,           \* parse_html: the start tag being read
    attributes,         \* parse_html: the attributes read so far for that tag
    turnStart,          \* parse_html: the place at which the latest loop turn began
    css,                \* parse_css: the input text
    cpc,                \* parse_css and the cascade: what has been done
    rules,              \* parse_css: StyleSheet.rules returned
    style,              \* specified_values: the ComputedStyle returned
    selText,            \* parse_selector: the input text
    selector,           \* parse_selector: the result
    target,             \* matches_selector: the node index tested
    matched,            \* matches_selector: the result, None before the call
    styles,             \* layout: the ComputedStyle of each node, by index
    viewport,           \* layout: the dimensions the root is laid out against
    visits,             \* layout: the node indices in the order the latest pass laid them out
    mutex,              \* main: the holder of the Document mutex, "free" when unlocked
    hostPc,             \* main: where the host driver stands
    frames              \* main: the binding callbacks in progress, innermost last

domVars == <<nodes, panicked, lastOp, cyc, nOps>>
parserVars == <<html, pos, pc, current_parent_idx, tag_name, attributes, turnStart>>
cssVars == <<css, cpc, rules, style>>
selVars == <<selText, selector, target, matched>>
layoutVars == <<styles, viewport, visits>>
lockVars == <<mutex, hostPc, frames>>
vars == <<nodes, panicked, lastOp, cyc, nOps, html, pos, pc, current_parent_idx,
          tag_name, attributes, turnStart, css, cpc, rules, style, selText, selector, target, matched,
          styles, viewport, visits, mutex, hostPc, frames>>

----------------------------------------------------------------------------
(* Bounds of the model *)

MaxNodes == 4
MaxOps == 6

----------------------------------------------------------------------------
(* Options, text *)

None == <<>>
Some(x) == <<x>>
IsSome(o) == Len(o) = 1
Unwrap(o) == o[1]

Min(a, b) == IF a < b THEN a ELSE b
Max(a, b) == IF a < b THEN b ELSE a

\* Rust's char::is_whitespace, on the characters the model uses
IsWhitespace(c) == c \in {" ", "\n", "\t"}

Letters == {"a", "b", "c", "d", "e", "h", "i", "k", "l", "o", "p", "r", "s", "u", "v", "x", "y",
            "A", "B", "X"}
Digits == {"0", "1", "2"}

\* Rust's char::is_alphanumeric, on the characters the model uses
IsAlphanumeric(c) == c \in Letters \cup Digits

\* Rust's char::to_lowercase, on the characters the model uses
CharToLower(c) ==
    CASE c = "A" -> "a"
      [] c = "B" -> "b"
      [] c = "X" -> "x"
      [] OTHER -> c

\* str::to_lowercase
to_lowercase(s) == [n \in 1..Len(s) |-> CharToLower(s[n])]

\* str::chars: the characters of a text
Chars(s) == {s[n] : n \in 1..Len(s)}

\* The code's scanning loops: from place p of s, the first place q >= p whose
\* character is one of stops, or Len(s) + 1 when there is none.
ScanTo(s, p, stops) ==
    LET ends == {q \in p..Len(s) : s[q] \in stops}
    IN  IF ends = {} THEN Max(p, Len(s) + 1)
        ELSE CHOOSE q \in ends : \A r \in ends : q <= r

\* str::trim: the text without its leading and trailing whitespace
trim(s) ==
    LET keep == {n \in 1..Len(s) : ~IsWhitespace(s[n])}
    IN  IF keep = {} THEN <<>>
        ELSE LET lo == CHOOSE n \in keep : \A m \in keep : n <= m
                 hi == CHOOSE n \in keep : \A m \in keep : m <= n
             IN  SubSeq(s, lo, hi)

\* str::split_whitespace: the maximal runs of non-whitespace characters, in order
RECURSIVE split_whitespace(_)
split_whitespace(s) ==
    LET start == ScanTo(s, 1, {c \in Chars(s) : ~IsWhitespace(c)})
    IN  IF start > Len(s) THEN <<>>
        ELSE LET stop == ScanTo(s, start, {c \in Chars(s) : IsWhitespace(c)})
             IN  <<SubSeq(s, start, stop - 1)>> \o split_whitespace(SubSeq(s, stop, Len(s)))

----------------------------------------------------------------------------
(* dom.rs: the Document *)

EmptyMap == [k \in {} |-> <<>>]

NoData == [kind |-> "None", tag_name |-> <<>>, attributes |-> EmptyMap, text |-> <<>>]

ElementData(tag) ==
    [kind |-> "Element", tag_name |-> tag, attributes |-> EmptyMap, text |-> <<>>]

TextData(text) ==
    [kind |-> "Text", tag_name |-> <<>>, attributes |-> EmptyMap, text |-> text]

NewNode(type, data) ==
    [node_type |-> type, parent |-> None, children |-> <<>>, data |-> data,
     shadow_root |-> None, event_listeners |-> EmptyMap, layout |-> None]

\* Document::new: the arena holds the root alone, at index 0
DocumentNew == <<NewNode("Document", NoData)>>

InRange(ns, i) == i \in 0..(Len(ns) - 1)

\* Document::get_node
get_node(ns, i) == IF InRange(ns, i) THEN Some(ns[i + 1]) ELSE None

\* Document::create_element: the arena after the call; the index returned is Len(ns)
create_element(ns, tag) == Append(ns, NewNode("Element", ElementData(tag)))

\* A create_text_node that reuses the last slot of the arena
create_text_node_in_place(ns, text) ==
    [ns EXCEPT ![Len(ns)] = NewNode("Text", TextData(text))]

\* Document::create_text_node
create_text_node(ns, text) == Append(ns, NewNode("Text", TextData(text)))

\* An append_child that forgets the child's parent link
append_child_no_parent(ns, p, c) ==
    IF ~InRange(ns, p) THEN [nodes |-> ns, panic |-> TRUE]
    ELSE [nodes |-> [ns EXCEPT ![p + 1].children = Append(@, c)], panic |-> ~InRange(ns, c)]

\* Document::append_child: indexing the arena panics on an index out of range, the
\* parent's first, the child's after the push onto the parent's child list
append_child(ns, p, c) ==
    IF ~InRange(ns, p) THEN [nodes |-> ns, panic |-> TRUE]
    ELSE LET pushed == [ns EXCEPT ![p + 1].children = Append(@, c)]
         IN  IF ~InRange(ns, c) THEN [nodes |-> pushed, panic |-> TRUE]
             ELSE [nodes |-> [pushed EXCEPT ![c + 1].parent = Some(p)], panic |-> FALSE]

\* HashMap::insert
MapInsert(m, k, v) == [x \in DOMAIN m \cup {k} |-> IF x = k THEN v ELSE m[x]]

\* HashMap::remove
MapRemove(m, k) == [x \in DOMAIN m \ {k} |-> m[x]]

\* HashMap::get
MapGet(m, k) == IF k \in DOMAIN m THEN Some(m[k]) ELSE None

\* A set_attribute that keeps the value a name already holds
set_attribute_keep_first(ns, i, k, v) ==
    IF InRange(ns, i) /\ ns[i + 1].data.kind = "Element" /\ k \notin DOMAIN ns[i + 1].data.attributes
    THEN [ns EXCEPT ![i + 1].data.attributes = MapInsert(@, k, v)]
    ELSE ns

\* Document::set_attribute
set_attribute(ns, i, k, v) ==
    IF InRange(ns, i) /\ ns[i + 1].data.kind = "Element"
    THEN [ns EXCEPT ![i + 1].data.attributes = MapInsert(@, k, v)]
    ELSE ns

\* Document::get_attribute
get_attribute(ns, i, k) ==
    IF InRange(ns, i) /\ ns[i + 1].data.kind = "Element"
    THEN MapGet(ns[i + 1].data.attributes, k)
    ELSE None

\* A remove_attribute that drops every attribute of the node
remove_attribute_all(ns, i, k) ==
    IF InRange(ns, i) /\ ns[i + 1].data.kind = "Element"
    THEN [ns EXCEPT ![i + 1].data.attributes = EmptyMap]
    ELSE ns

\* ElementRef::remove_attribute
remove_attribute(ns, i, k) ==
    IF InRange(ns, i) /\ ns[i + 1].data.kind = "Element"
    THEN [ns EXCEPT ![i + 1].data.attributes = MapRemove(@, k)]
    ELSE ns

\* ElementRef::has_attribute
has_attribute(ns, i, k) == IsSome(get_attribute(ns, i, k))

\* ElementRef::tag_name
tag_name_of(ns, i) ==
    IF InRange(ns, i) /\ ns[i + 1].data.kind = "Element"
    THEN Some(ns[i + 1].data.tag_name)
    ELSE None

\* ElementRef::attributes: a copy of the whole attribute map
attributes_of(ns, i) ==
    IF InRange(ns, i) /\ ns[i + 1].data.kind = "Element"
    THEN Some(ns[i + 1].data.attributes)
    ELSE None

\* An is_valid that accepts every node of the arena
is_valid_in_range(ns, i) == InRange(ns, i)

\* ElementRef::is_valid
is_valid(ns, i) == InRange(ns, i) /\ ns[i + 1].node_type = "Element"

ShadowRoot(mode) == [mode |-> mode, children |-> <<>>]

ErrShadowExists == "Shadow root already exists for this host."
ErrNotElement == "Cannot attach shadow root to a non-element node."
ErrHostNotFound == "Host node not found."

\* The outcome of attach_shadow: the arena after the call and what it returned,
\* Ok(index) or Err(message)
Attached(ns, kind, idx, msg) == [nodes |-> ns, kind |-> kind, idx |-> idx, msg |-> msg]

\* An attach_shadow that replaces the shadow root a host already has
attach_shadow_replace(ns, host_idx, mode) ==
    IF InRange(ns, host_idx)
    THEN IF ns[host_idx + 1].node_type = "Element"
         THEN Attached([ns EXCEPT ![host_idx + 1].shadow_root = Some(ShadowRoot(mode))],
                       "Ok", host_idx, "")
         ELSE Attached(ns, "Err", 0, ErrNotElement)
    ELSE Attached(ns, "Err", 0, ErrHostNotFound)

\* Document::attach_shadow
attach_shadow(ns, host_idx, mode) ==
    IF InRange(ns, host_idx)
    THEN IF ns[host_idx + 1].node_type = "Element"
         THEN IF IsSome(ns[host_idx + 1].shadow_root)
              THEN Attached(ns, "Err", 0, ErrShadowExists)
              ELSE Attached([ns EXCEPT ![host_idx + 1].shadow_root = Some(ShadowRoot(mode))],
                            "Ok", host_idx, "")
         ELSE Attached(ns, "Err", 0, ErrNotElement)
    ELSE Attached(ns, "Err", 0, ErrHostNotFound)

\* Document::add_event_listener: the listener is pushed onto the list kept for
\* the event type, a new one when the type has none yet; nothing for an index
\* out of range
add_event_listener(ns, node_idx, event_type, listener_idx) ==
    IF InRange(ns, node_idx)
    THEN [ns EXCEPT ![node_idx + 1].event_listeners =
            MapInsert(@, event_type,
                      Append(IF event_type \in DOMAIN @ THEN @[event_type] ELSE <<>>,
                             listener_idx))]
    ELSE ns

\* Document::dispatch_event: from the target up along parent links, the indices
\* of the nodes that hold a listener list for the event type, for each of which
\* a line is printed; the walk ends at a node without parent or at an index out
\* of range
RECURSIVE dispatch_event(_, _, _)
dispatch_event(ns, target_idx, event_type) ==
    IF ~InRange(ns, target_idx) THEN <<>>
    ELSE (IF event_type \in DOMAIN ns[target_idx + 1].event_listeners
          THEN <<target_idx>> ELSE <<>>)
         \o (IF ns[target_idx + 1].parent = None THEN <<>>
             ELSE dispatch_event(ns, Unwrap(ns[target_idx + 1].parent), event_type))

\* The indices reachable from the nodes in frontier along child lists
RECURSIVE Reach(_, _, _)
Reach(ns, frontier, seen) ==
    IF frontier = {} THEN seen
    ELSE LET kids == UNION {{ns[i + 1].children[n] : n \in DOMAIN ns[i + 1].children} : i \in frontier}
             fresh == {k \in kids : InRange(ns, k)} \ (seen \cup frontier)
         IN  Reach(ns, fresh, seen \cup frontier)

\* c and every node below it
Subtree(ns, c) == Reach(ns, {c}, {})

----------------------------------------------------------------------------
(* parser.rs: the markup scanner.  A place p in text s stands for the Peekable *)
(* iterator whose next character is s[p]; p = Len(s) + 1 when it is exhausted. *)

\* chars.next(): one character on, or nothing at the end of the text
Advance(s, p) == Min(p + 1, Len(s) + 1)

\* consume_until(chars, target): the place of the next target, unconsumed
consume_until(s, p, ch) == ScanTo(s, p, {ch})

IsTagNameChar(c) == IsAlphanumeric(c) \/ c \in {"-", "_", ":"}
IsAttrNameChar(c) == IsAlphanumeric(c) \/ c = "-"

Scanned(text, p) == [text |-> text, pos |-> p]

\* consume_tag_name
consume_tag_name(s, p) ==
    LET q == ScanTo(s, p, {c \in Chars(s) : ~IsTagNameChar(c)})
    IN  Scanned(SubSeq(s, p, q - 1), q)

\* consume_attr_name
consume_attr_name(s, p) ==
    LET q == ScanTo(s, p, {c \in Chars(s) : ~IsAttrNameChar(c)})
    IN  Scanned(SubSeq(s, p, q - 1), q)

\* consume_attr_value: a quoted value runs to its closing quote, which is
\* consumed, an unquoted one to whitespace or '>'; both to the end of the text
\* when that never comes
consume_attr_value(s, p) ==
    IF p <= Len(s) /\ s[p] \in {"'", "\""}
    THEN LET q == consume_until(s, p + 1, s[p])
         IN  Scanned(SubSeq(s, p + 1, q - 1), Advance(s, q))
    ELSE LET q == ScanTo(s, p, {c \in Chars(s) : IsWhitespace(c) \/ c = ">"})
         IN  Scanned(SubSeq(s, p, q - 1), q)

\* consume_text: up to the next '<'
consume_text(s, p) ==
    LET q == consume_until(s, p, "<")
    IN  Scanned(SubSeq(s, p, q - 1), q)

\* An attribute read that takes a value only when '=' follows the name at once
consume_attribute_optional_value(s, p) ==
    LET name == consume_attr_name(s, p)
    IN  IF name.pos <= Len(s) /\ s[name.pos] = "="
        THEN LET value == consume_attr_value(s, name.pos + 1)
             IN  [name |-> name.text, value |-> value.text, pos |-> value.pos]
        ELSE [name |-> name.text, value |-> <<>>, pos |-> name.pos]

\* One attribute of consume_attributes' loop: its name, everything up to and
\* with the next '=', its value
consume_attribute(s, p) ==
    LET name == consume_attr_name(s, p)
        eq == consume_until(s, name.pos, "=")
        value == consume_attr_value(s, Advance(s, eq))
    IN  [name |-> name.text, value |-> value.text, pos |-> value.pos]

\* parse_html's loop over the attributes read: set_attribute for each
RECURSIVE SetAttributes(_, _, _)
SetAttributes(ns, idx, attrs) ==
    IF DOMAIN attrs = {} THEN ns
    ELSE LET k == CHOOSE k \in DOMAIN attrs : TRUE
         IN  SetAttributes(set_attribute(ns, idx, k, attrs[k]), idx, MapRemove(attrs, k))

\* An end tag that compares the names ignoring case
PopIfMatchesIgnoringCase(ns, cur, tag) ==
    IF /\ IsSome(cur)
       /\ InRange(ns, Unwrap(cur))
       /\ ns[Unwrap(cur) + 1].node_type = "Element"
       /\ to_lowercase(ns[Unwrap(cur) + 1].data.tag_name) = to_lowercase(tag)
    THEN ns[Unwrap(cur) + 1].parent
    ELSE cur

\* parse_html's end tag: the insertion parent after a close tag named tag
PopIfMatches(ns, cur, tag) ==
    IF /\ IsSome(cur)
       /\ InRange(ns, Unwrap(cur))
       /\ ns[Unwrap(cur) + 1].node_type = "Element"
       /\ ns[Unwrap(cur) + 1].data.kind = "Element"
       /\ ns[Unwrap(cur) + 1].data.tag_name = tag
    THEN ns[Unwrap(cur) + 1].parent
    ELSE cur

\* A placing of the new node before the children the insertion parent has
AppendUnderInFront(ns, cur, idx) ==
    IF IsSome(cur)
    THEN [nodes |-> [ns EXCEPT ![Unwrap(cur) + 1].children = <<idx>> \o @,
                               ![idx + 1].parent = cur],
          panic |-> FALSE]
    ELSE [nodes |-> ns, panic |-> FALSE]

\* parse_html: the new node idx goes under the insertion parent when there is one
AppendUnder(ns, cur, idx) ==
    IF IsSome(cur) THEN append_child(ns, Unwrap(cur), idx)
    ELSE [nodes |-> ns, panic |-> FALSE]

----------------------------------------------------------------------------
(* css.rs: the style-sheet scanner *)

\* css.rs consume_until
css_consume_until(s, p, ch) == ScanTo(s, p, {ch})

\* consume_selectors: the comma-separated texts before '{', each trimmed; the
\* text before a comma is kept even when empty, the last one only when not
RECURSIVE consume_selectors(_, _, _, _)
consume_selectors(s, p, current_selector, selectors) ==
    IF (IF p > Len(s) THEN TRUE ELSE s[p] = "{")
    THEN [selectors |-> IF trim(current_selector) # <<>>
                        THEN Append(selectors, trim(current_selector))
                        ELSE selectors,
          pos |-> p]
    ELSE IF s[p] = ","
    THEN consume_selectors(s, p + 1, <<>>, Append(selectors, trim(current_selector)))
    ELSE consume_selectors(s, p + 1, Append(current_selector, s[p]), selectors)

\* consume_property: up to whitespace or ':'
consume_property(s, p) ==
    LET q == ScanTo(s, p, {c \in Chars(s) : IsWhitespace(c) \/ c = ":"})
    IN  Scanned(trim(SubSeq(s, p, q - 1)), q)

\* consume_value: up to ';' or '}', trimmed
consume_value(s, p) ==
    LET q == ScanTo(s, p, {c \in Chars(s) : c \in {";", "}"}})
    IN  Scanned(trim(SubSeq(s, p, q - 1)), q)

\* consume_declarations: until '}' or the end of the text, a property, all up
\* to and with the next ':', a value, all up to and with the next ';'
RECURSIVE consume_declarations(_, _, _)
consume_declarations(s, p, declarations) ==
    IF p > Len(s) THEN [declarations |-> declarations, pos |-> p]
    ELSE IF IsWhitespace(s[p]) THEN consume_declarations(s, p + 1, declarations)
    ELSE IF s[p] = "}" THEN [declarations |-> declarations, pos |-> p]
    ELSE LET property == consume_property(s, p)
             value == consume_value(s, Advance(s, css_consume_until(s, property.pos, ":")))
             next == Advance(s, css_consume_until(s, value.pos, ";"))
         IN  consume_declarations(s, next, MapInsert(declarations, property.text, value.text))

Rule(selectors, declarations) == [selectors |-> selectors, declarations |-> declarations]

\* parse_css's loop, from place p with the rules read so far
RECURSIVE parse_css_from(_, _, _)
parse_css_from(s, p, rs) ==
    IF p > Len(s) THEN rs
    ELSE IF IsWhitespace(s[p]) THEN parse_css_from(s, p + 1, rs)
    ELSE LET sels == consume_selectors(s, p, <<>>, <<>>)
             open == Advance(s, css_consume_until(s, sels.pos, "{"))
             decls == consume_declarations(s, open, EmptyMap)
             close == Advance(s, css_consume_until(s, decls.pos, "}"))
         IN  IF sels.selectors = <<>> THEN rs
             ELSE parse_css_from(s, close, Append(rs, Rule(sels.selectors, decls.declarations)))

\* parse_css: StyleSheet.rules
parse_css(s) == parse_css_from(s, 1, <<>>)

----------------------------------------------------------------------------
(* style.rs: the cascade *)

\* The characters in the order of their code points
CodePointOrder ==
    <<"\t", "\n", " ", "\"", "#", "'", ",", "-", ".", "/", "0", "1", "2", ":", ";", "<", "=",
      ">", "A", "B", "X", "[", "]", "_", "a", "b", "c", "d", "e", "h", "i", "k", "l", "o", "p",
      "r", "s", "u", "v", "x", "y", "{", "}">>

CodePoint(c) == CHOOSE n \in DOMAIN CodePointOrder : CodePointOrder[n] = c

\* String's Ord: a < b
StrLess(a, b) ==
    \/ Len(a) < Len(b) /\ SubSeq(b, 1, Len(a)) = a
    \/ \E n \in 1..Min(Len(a), Len(b)) :
        /\ SubSeq(a, 1, n - 1) = SubSeq(b, 1, n - 1)
        /\ CodePoint(a[n]) < CodePoint(b[n])

\* [String]::join(",")
RECURSIVE join(_)
join(strs) ==
    IF strs = <<>> THEN <<>>
    ELSE IF Len(strs) = 1 THEN strs[1]
    ELSE strs[1] \o <<",">> \o join(Tail(strs))

\* A sort that leaves the items in the order they came in
sort_by_key_unsorted(seq, keys) == seq

\* Vec::sort_by_key, a stable sort, keys[n] being the key of seq[n]: an item
\* moves behind those with a smaller
\* key and those with an equal key that stood before it
sort_by_key(seq, keys) ==
    LET rank(n) == Cardinality({m \in DOMAIN seq :
                        \/ StrLess(keys[m], keys[n])
                        \/ keys[m] = keys[n] /\ m < n})
    IN  [r \in DOMAIN seq |-> seq[CHOOSE n \in DOMAIN seq : rank(n) = r - 1]]

\* style.rs matches: the selector text against the tag name, the class tokens
\* with a '.' before them, the id with a '#' before it
matches(node, selector_text) ==
    /\ node.data.kind = "Element"
    /\ \/ node.data.tag_name = selector_text
       \/ /\ <<"c", "l", "a", "s", "s">> \in DOMAIN node.data.attributes
          /\ \E n \in DOMAIN split_whitespace(node.data.attributes[<<"c", "l", "a", "s", "s">>]) :
                <<".">> \o split_whitespace(node.data.attributes[<<"c", "l", "a", "s", "s">>])[n]
                    = selector_text
       \/ /\ <<"i", "d">> \in DOMAIN node.data.attributes
          /\ <<"#">> \o node.data.attributes[<<"i", "d">>] = selector_text

CssPixels(n) == [unit |-> "Pixels", n |-> n]

\* ComputedStyle::default
DefaultStyle ==
    [width |-> None, height |-> None,
     padding_top |-> None, padding_right |-> None, padding_bottom |-> None, padding_left |-> None,
     margin_top |-> None, margin_right |-> None, margin_bottom |-> None, margin_left |-> None,
     border_width |-> None, border_color |-> None, display |-> "Block",
     font_size |-> Some(CssPixels(16)), color |-> None, background_color |-> None]

\* The rules of the sheet with a selector that matches, in sheet order
RECURSIVE MatchedRules(_, _)
MatchedRules(node, rs) ==
    IF rs = <<>> THEN <<>>
    ELSE (IF \E n \in DOMAIN Head(rs).selectors : matches(node, Head(rs).selectors[n])
          THEN <<Head(rs)>> ELSE <<>>) \o MatchedRules(node, Tail(rs))

\* The declarations of the rules applied in turn: only color is mapped
RECURSIVE ApplyRules(_, _)
ApplyRules(computed, rs) ==
    IF rs = <<>> THEN computed
    ELSE ApplyRules(IF <<"c", "o", "l", "o", "r">> \in DOMAIN Head(rs).declarations
                    THEN [computed EXCEPT !.color =
                            Some(Head(rs).declarations[<<"c", "o", "l", "o", "r">>])]
                    ELSE computed,
                    Tail(rs))

\* specified_values
specified_values(node, rs) ==
    LET matched_rules == MatchedRules(node, rs)
    IN  ApplyRules(DefaultStyle,
                   sort_by_key(matched_rules,
                               [n \in DOMAIN matched_rules |-> join(matched_rules[n].selectors)]))

----------------------------------------------------------------------------
(* layout.rs: the box model.  An f32 length is held as a whole number of       *)
(* eighths of a pixel, so that the halves, quarters and eighths the model's    *)
(* percentages and line heights produce are exact, as they are in f32.         *)

PixelUnits == 8

\* The f32 n, a whole number of pixels
Px(n) == n * PixelUnits

CssPercentage(n) == [unit |-> "Percentage", n |-> n]
CssAuto == [unit |-> "Auto", n |-> 0]
CssInherit == [unit |-> "Inherit", n |-> 0]

\* CSSValue::as_pixels
as_pixels(v, reference) ==
    CASE v.unit = "Pixels" -> Px(v.n)
      [] v.unit = "Percentage" -> (reference * v.n) \div 100
      [] v.unit = "Auto" -> 0
      [] v.unit = "Inherit" -> 0

\* option.as_ref().map(|v| v.as_pixels(reference)).unwrap_or(default)
pixels_or(option, reference, default) ==
    IF IsSome(option) THEN as_pixels(Unwrap(option), reference) ELSE default

\* A width that ignores the display mode when the style sets none
calculate_width_no_floor(st, parent_width) ==
    IF IsSome(st.width) THEN as_pixels(Unwrap(st.width), parent_width) ELSE parent_width

\* calculate_dimensions, the width
calculate_width(st, parent_width) ==
    IF IsSome(st.width) THEN as_pixels(Unwrap(st.width), parent_width)
    ELSE IF st.display = "Block" THEN Max(parent_width, Px(100))
    ELSE Px(100)

\* calculate_dimensions, the height: font_size * 1.5 for a Text node without one
calculate_height(st, parent_height, node) ==
    IF IsSome(st.height) THEN as_pixels(Unwrap(st.height), parent_height)
    ELSE IF node.node_type = "Text"
         THEN (pixels_or(st.font_size, Px(16), Px(16)) * 3) \div 2
    ELSE Px(100)

\* calculate_dimensions
calculate_dimensions(st, parent_width, parent_height, node) ==
    [width |-> calculate_width(st, parent_width),
     height |-> calculate_height(st, parent_height, node)]

\* A content size left unclamped
content_size_unclamped(size, before, after, border_width) ==
    size - before - after - (2 * border_width)

\* The content area along one axis: (size - before - after - 2 * border).max(0.0)
content_size(size, before, after, border_width) ==
    Max(size - before - after - (2 * border_width), 0)

\* The Layout calculate_layout_recursive builds for one node
NodeLayout(st, parent_width, parent_height, node) ==
    LET dims == calculate_dimensions(st, parent_width, parent_height, node)
        padding_top == pixels_or(st.padding_top, parent_width, 0)
        padding_right == pixels_or(st.padding_right, parent_width, 0)
        padding_bottom == pixels_or(st.padding_bottom, parent_width, 0)
        padding_left == pixels_or(st.padding_left, parent_width, 0)
        margin_top == pixels_or(st.margin_top, parent_width, 0)
        margin_right == pixels_or(st.margin_right, parent_width, 0)
        margin_bottom == pixels_or(st.margin_bottom, parent_width, 0)
        margin_left == pixels_or(st.margin_left, parent_width, 0)
        border_width == pixels_or(st.border_width, parent_width, 0)
    IN  [x |-> margin_left, y |-> margin_top,
         width |-> dims.width, height |-> dims.height,
         content_width |-> content_size(dims.width, padding_left, padding_right, border_width),
         content_height |-> content_size(dims.height, padding_top, padding_bottom, border_width),
         padding_top |-> padding_top, padding_right |-> padding_right,
         padding_bottom |-> padding_bottom, padding_left |-> padding_left,
         margin_top |-> margin_top, margin_right |-> margin_right,
         margin_bottom |-> margin_bottom, margin_left |-> margin_left,
         border_width |-> border_width,
         font_size |-> pixels_or(st.font_size, Px(16), Px(16)),
         display |-> st.display]

\* A pass in progress: the arena and the indices laid out so far, in order
Laid(ns, vs) == [nodes |-> ns, visits |-> vs]

\* A flex placement that keeps the child's left margin
flex_place_after_margin(layout, current_x) == [layout EXCEPT !.x = current_x + layout.margin_left]

\* layout_flex_children, the placement of one child: child_layout.x = current_x
flex_place(layout, current_x) == [layout EXCEPT !.x = current_x]

RECURSIVE calculate_layout_recursive(_, _, _, _, _)
RECURSIVE layout_children(_, _, _, _, _, _)
RECURSIVE layout_flex_children(_, _, _, _, _, _, _)

\* A layout of the children that stacks them: each child is moved down by the
\* bottom edge of the child before it
RECURSIVE layout_children_stacked(_, _, _, _, _, _)
layout_children_stacked(laid, children, n, sts, parent_width, parent_height) ==
    IF n > Len(children) THEN laid
    ELSE LET done == calculate_layout_recursive(laid, children[n], sts,
                                                parent_width, parent_height)
             child_layout == Unwrap(done.nodes[children[n] + 1].layout)
             above == IF n = 1 THEN 0
                      ELSE Unwrap(done.nodes[children[n - 1] + 1].layout).y
                           + Unwrap(done.nodes[children[n - 1] + 1].layout).height
         IN  layout_children_stacked(
                Laid([done.nodes EXCEPT ![children[n] + 1].layout =
                        Some([child_layout EXCEPT !.y = @ + above])],
                     done.visits),
                children, n + 1, sts, parent_width, parent_height)

\* calculate_layout_recursive: the node's Layout is stored, then its children are
\* laid out against its content box, by the flex pass when its display is Flex
calculate_layout_recursive(laid, node_idx, sts, parent_width, parent_height) ==
    LET node == laid.nodes[node_idx + 1]
        st == sts[node_idx + 1]
        layout == NodeLayout(st, parent_width, parent_height, node)
        stored == Laid([laid.nodes EXCEPT ![node_idx + 1].layout = Some(layout)],
                       Append(laid.visits, node_idx))
    IN  IF st.display = "Flex"
        THEN layout_flex_children(stored, node.children, 1, sts,
                                  layout.content_width, layout.content_height, 0)
        ELSE layout_children(stored, node.children, 1, sts,
                             layout.content_width, layout.content_height)

\* for child_idx in children { calculate_layout_recursive(..) }, from the n-th on
layout_children(laid, children, n, sts, parent_width, parent_height) ==
    IF n > Len(children) THEN laid
    ELSE layout_children(
            calculate_layout_recursive(laid, children[n], sts, parent_width, parent_height),
            children, n + 1, sts, parent_width, parent_height)

\* layout_flex_children, from the n-th child on: the child is laid out, then its x
\* is overwritten with the widths of the children before it
layout_flex_children(laid, children, n, sts, parent_width, parent_height, current_x) ==
    IF n > Len(children) THEN laid
    ELSE LET done == calculate_layout_recursive(laid, children[n], sts,
                                                parent_width, parent_height)
             child_layout == Unwrap(done.nodes[children[n] + 1].layout)
         IN  layout_flex_children(
                Laid([done.nodes EXCEPT ![children[n] + 1].layout =
                        Some(flex_place(child_layout, current_x))],
                     done.visits),
                children, n + 1, sts, parent_width, parent_height,
                current_x + child_layout.width)

\* Styles that differ from the default in the display mode
InlineStyles(ns) == [n \in 1..Len(ns) |-> [DefaultStyle EXCEPT !.display = "Inline"]]

\* vec![ComputedStyle::default(); document.nodes.len()]
DefaultStyles(ns) == [n \in 1..Len(ns) |-> DefaultStyle]

\* A calculate_layout that lays out every node of the arena against the viewport
calculate_layout_every_node(ns, viewport_width, viewport_height) ==
    Laid([n \in 1..Len(ns) |->
            [ns[n] EXCEPT !.layout =
                Some(NodeLayout(DefaultStyle, viewport_width, viewport_height, ns[n]))]],
         [n \in 1..Len(ns) |-> n - 1])

\* A calculate_layout that leaves a Document alone once its root is laid out
calculate_layout_once(ns, viewport_width, viewport_height) ==
    IF ns = <<>> THEN Laid(ns, <<>>)
    ELSE IF IsSome(ns[1].layout) THEN Laid(ns, <<0>>)
    ELSE calculate_layout_recursive(Laid(ns, <<>>), 0, DefaultStyles(ns),
                                    viewport_width, viewport_height)

\* calculate_layout: every node gets the default style, and the pass starts at the
\* root against the viewport
calculate_layout(ns, viewport_width, viewport_height) ==
    IF ns = <<>> THEN Laid(ns, <<>>)
    ELSE calculate_layout_recursive(Laid(ns, <<>>), 0, DefaultStyles(ns),
                                    viewport_width, viewport_height)

----------------------------------------------------------------------------
(* query.rs: the selector engine *)

Selector(tag, a, b) == [tag |-> tag, a |-> a, b |-> b]
NoSelector == Selector("None", <<>>, <<>>)

Ok(sel) == [kind |-> "Ok", sel |-> sel]
Err == [kind |-> "Err", sel |-> NoSelector]
Panic == [kind |-> "Panic", sel |-> NoSelector]

\* str::find(ch): the first place of ch in s, None when it has none
find(s, ch) ==
    LET q == ScanTo(s, 1, {ch})
    IN  IF q > Len(s) THEN None ELSE Some(q)

Sliced(text) == [panic |-> FALSE, text |-> text]
SlicePanic == [panic |-> TRUE, text |-> <<>>]

\* value_part[1..value_part.len()-1]: the slice panics when its start, 1, is past
\* its end, that is when value_part is one character long
StripQuotes(value_part) ==
    IF Len(value_part) < 2 THEN SlicePanic
    ELSE Sliced(SubSeq(value_part, 2, Len(value_part) - 1))

\* The value of an attribute selector, from the text after its '='
AttributeValue(value_part) ==
    IF Len(value_part) > 0 /\ Head(value_part) = "\"" /\ value_part[Len(value_part)] = "\""
    THEN StripQuotes(value_part)
    ELSE IF Len(value_part) > 0 /\ Head(value_part) = "'" /\ value_part[Len(value_part)] = "'"
    THEN StripQuotes(value_part)
    ELSE Sliced(value_part)

\* parse_selector
parse_selector(text) ==
    LET s == trim(text)
    IN  IF s = <<>> THEN Err
        ELSE IF Head(s) = "#" THEN Ok(Selector("Id", Tail(s), <<>>))
        ELSE IF Head(s) = "." THEN Ok(Selector("Class", Tail(s), <<>>))
        ELSE IF Head(s) = "[" /\ s[Len(s)] = "]"
        THEN LET content == SubSeq(s, 2, Len(s) - 1)
                 eq_pos == find(content, "=")
             IN  IF IsSome(eq_pos)
                 THEN LET attr == trim(SubSeq(content, 1, Unwrap(eq_pos) - 1))
                          value_part == trim(SubSeq(content, Unwrap(eq_pos) + 1, Len(content)))
                          value == AttributeValue(value_part)
                      IN  IF value.panic THEN Panic
                          ELSE Ok(Selector("Attribute", attr, value.text))
                 ELSE Ok(Selector("AttributeExists", content, <<>>))
        ELSE Ok(Selector("Element", s, <<>>))

\* Iterator::any over the tokens of a class attribute
AnyToken(tokens, class) == \E n \in DOMAIN tokens : tokens[n] = class

\* A decision that compares tag names as written
MatchesElementExactTag(element_data, sel) ==
    CASE sel.tag = "Element" -> element_data.tag_name = sel.a
      [] sel.tag = "Id" ->
            /\ <<"i", "d">> \in DOMAIN element_data.attributes
            /\ element_data.attributes[<<"i", "d">>] = sel.a
      [] sel.tag = "Class" ->
            /\ <<"c", "l", "a", "s", "s">> \in DOMAIN element_data.attributes
            /\ AnyToken(split_whitespace(element_data.attributes[<<"c", "l", "a", "s", "s">>]), sel.a)
      [] sel.tag = "Attribute" ->
            /\ sel.a \in DOMAIN element_data.attributes
            /\ element_data.attributes[sel.a] = sel.b
      [] sel.tag = "AttributeExists" -> sel.a \in DOMAIN element_data.attributes
      [] OTHER -> FALSE

\* matches_selector's decision for an Element's data
MatchesElement(element_data, sel) ==
    CASE sel.tag = "Element" -> to_lowercase(element_data.tag_name) = to_lowercase(sel.a)
      [] sel.tag = "Id" ->
            LET v == MapGet(element_data.attributes, <<"i", "d">>)
            IN  IsSome(v) /\ Unwrap(v) = sel.a
      [] sel.tag = "Class" ->
            LET classes == MapGet(element_data.attributes, <<"c", "l", "a", "s", "s">>)
            IN  IsSome(classes) /\ AnyToken(split_whitespace(Unwrap(classes)), sel.a)
      [] sel.tag = "Attribute" ->
            LET v == MapGet(element_data.attributes, sel.a)
            IN  IsSome(v) /\ Unwrap(v) = sel.b
      [] sel.tag = "AttributeExists" -> sel.a \in DOMAIN element_data.attributes
      [] OTHER -> FALSE

\* matches_selector
matches_selector(ns, node_idx, sel) ==
    /\ InRange(ns, node_idx)
    /\ ns[node_idx + 1].node_type = "Element"
    /\ ns[node_idx + 1].data.kind = "Element"
    /\ MatchesElement(ns[node_idx + 1].data, sel)

\* search_recursive: the node itself when it matches, then its children's
\* results, child by child
RECURSIVE search_recursive(_, _, _)
RECURSIVE search_children(_, _, _, _)

\* A traversal that reports a node after its descendants
search_recursive_postorder(ns, node_idx, sel) ==
    IF ~InRange(ns, node_idx) THEN <<>>
    ELSE search_children(ns, ns[node_idx + 1].children, 1, sel)
         \o (IF matches_selector(ns, node_idx, sel) THEN <<node_idx>> ELSE <<>>)

search_recursive(ns, node_idx, sel) ==
    IF ~InRange(ns, node_idx) THEN <<>>
    ELSE (IF matches_selector(ns, node_idx, sel) THEN <<node_idx>> ELSE <<>>)
         \o search_children(ns, ns[node_idx + 1].children, 1, sel)

search_children(ns, kids, n, sel) ==
    IF n > Len(kids) THEN <<>>
    ELSE search_recursive(ns, kids[n], sel) \o search_children(ns, kids, n + 1, sel)

\* query_selector_all: Err when the selector does not parse, else the matches
\* found below the root's children, the root itself untested
query_selector_all(ns, text) ==
    LET parsed == parse_selector(text)
    IN  IF parsed.kind # "Ok" THEN [kind |-> parsed.kind, results |-> <<>>]
        ELSE [kind |-> "Ok", results |-> search_children(ns, ns[1].children, 1, parsed.sel)]

\* query_selector: query_selector_all's failure passed on, else the first of its
\* results, None when there is none
query_selector(ns, text) ==
    LET all == query_selector_all(ns, text)
    IN  IF all.kind # "Ok" THEN [kind |-> all.kind, result |-> None]
        ELSE [kind |-> "Ok",
              result |-> IF all.results = <<>> THEN None ELSE Some(Head(all.results))]

----------------------------------------------------------------------------
(* The Document under its callers: any sequence of the public operations *)

Tags == {<<"a">>, <<"b">>}
Texts == {<<"x">>}
AttrNames == {<<"i", "d">>, <<"k">>}
AttrValues == {<<"x">>, <<"y">>}

\* A call: its name, index arguments i and j, text arguments k and v, the index it
\* returned, and for an attribute write the value the name held before it
Call(op, i, j, k, v, ret, old) ==
    [op |-> op, i |-> i, j |-> j, k |-> k, v |-> v, ret |-> ret, old |-> old]
NoCall == Call("none", 0, 0, <<>>, <<>>, 0, None)

ParserIdle ==
    /\ html = <<>>
    /\ pos = 1
    /\ pc = "idle"
    /\ current_parent_idx = None
    /\ tag_name = <<>>
    /\ attributes = EmptyMap
    /\ turnStart = 0

CssIdle ==
    /\ css = <<>>
    /\ cpc = "idle"
    /\ rules = <<>>
    /\ style = DefaultStyle

Pending == [kind |-> "Pending", sel |-> NoSelector]

SelIdle ==
    /\ selText = <<>>
    /\ selector = Pending
    /\ target = 0
    /\ matched = None

LayoutIdle ==
    /\ styles = <<>>
    /\ viewport = [width |-> 0, height |-> 0]
    /\ visits = <<>>

LockIdle ==
    /\ mutex = "free"
    /\ hostPc = "idle"
    /\ frames = <<>>

DomInit ==
    /\ nodes = DocumentNew
    /\ panicked = FALSE
    /\ lastOp = NoCall
    /\ cyc = FALSE
    /\ nOps = 0

Init == DomInit /\ ParserIdle /\ CssIdle /\ SelIdle /\ LayoutIdle /\ LockIdle

CreateElement ==
    /\ ~panicked
    /\ nOps < MaxOps
    /\ nOps' = nOps + 1
    /\ Len(nodes) < MaxNodes
    /\ \E tag \in Tags :
        /\ nodes' = create_element(nodes, tag)
        /\ lastOp' = Call("create_element", 0, 0, tag, <<>>, Len(nodes), None)
    /\ UNCHANGED <<panicked, cyc, parserVars, cssVars, selVars, layoutVars, lockVars>>

CreateTextNode ==
    /\ ~panicked
    /\ nOps < MaxOps
    /\ nOps' = nOps + 1
    /\ Len(nodes) < MaxNodes
    /\ \E text \in Texts :
        /\ nodes' = create_text_node(nodes, text)
        /\ lastOp' = Call("create_text_node", 0, 0, text, <<>>, Len(nodes), None)
    /\ UNCHANGED <<panicked, cyc, parserVars, cssVars, selVars, layoutVars, lockVars>>

\* Any pair of indices: those of the arena and one past its end
AppendChild ==
    /\ ~panicked
    /\ nOps < MaxOps
    /\ nOps' = nOps + 1
    /\ \E p \in 0..Len(nodes), c \in 0..Len(nodes) :
        LET r == append_child(nodes, p, c)
        IN  /\ nodes' = r.nodes
            /\ panicked' = r.panic
            /\ cyc' = (cyc \/ (InRange(nodes, p) /\ InRange(nodes, c) /\ p \in Subtree(nodes, c)))
            /\ lastOp' = Call("append_child", p, c, <<>>, <<>>, 0, None)
    /\ UNCHANGED <<parserVars, cssVars, selVars, layoutVars, lockVars>>

SetAttribute ==
    /\ ~panicked
    /\ nOps < MaxOps
    /\ nOps' = nOps + 1
    /\ \E i \in 0..Len(nodes), k \in AttrNames, v \in AttrValues :
        /\ nodes' = set_attribute(nodes, i, k, v)
        /\ lastOp' = Call("set_attribute", i, 0, k, v, 0, get_attribute(nodes, i, k))
    /\ UNCHANGED <<panicked, cyc, parserVars, cssVars, selVars, layoutVars, lockVars>>

RemoveAttribute ==
    /\ ~panicked
    /\ nOps < MaxOps
    /\ nOps' = nOps + 1
    /\ \E i \in 0..Len(nodes), k \in AttrNames :
        /\ nodes' = remove_attribute(nodes, i, k)
        /\ lastOp' = Call("remove_attribute", i, 0, k, <<>>, 0, get_attribute(nodes, i, k))
    /\ UNCHANGED <<panicked, cyc, parserVars, cssVars, selVars, layoutVars, lockVars>>

Next ==
    \/ CreateElement
    \/ CreateTextNode
    \/ AppendChild
    \/ SetAttribute
    \/ RemoveAttribute

Spec == Init /\ [][Next]_vars

----------------------------------------------------------------------------
(* The Document under every operation that writes to it: those of Spec, and  *)
(* attach_shadow, add_event_listener and calculate_layout                     *)

MaxDocOps == 5

ShadowRootModes == {"Open", "Closed"}
EventTypes == {<<"c">>}
Viewports == {[width |-> 256, height |-> 256], [width |-> 64, height |-> 48]}

\* Some node below r has itself among its descendants: a traversal from r along
\* child lists never ends
RecursesForever(ns, r) ==
    \E i \in Subtree(ns, r) :
        i \in Reach(ns, {ns[i + 1].children[n] : n \in DOMAIN ns[i + 1].children}, {})

\* attach_shadow with any index and either mode; the call records the mode in k
\* and the error message, if any, in v
AttachShadow ==
    /\ ~panicked
    /\ nOps < MaxOps
    /\ nOps' = nOps + 1
    /\ \E host_idx \in 0..Len(nodes), mode \in ShadowRootModes :
        LET r == attach_shadow(nodes, host_idx, mode)
        IN  /\ nodes' = r.nodes
            /\ lastOp' = Call("attach_shadow", host_idx, 0, <<mode>>,
                              IF r.kind = "Ok" THEN <<>> ELSE <<r.msg>>, r.idx, None)
    /\ UNCHANGED <<panicked, cyc, parserVars, cssVars, selVars, layoutVars, lockVars>>

\* add_event_listener, with the listener index the bindings pass
AddEventListener ==
    /\ ~panicked
    /\ nOps < MaxOps
    /\ nOps' = nOps + 1
    /\ \E node_idx \in 0..Len(nodes), event_type \in EventTypes :
        /\ nodes' = add_event_listener(nodes, node_idx, event_type, 0)
        /\ lastOp' = Call("add_event_listener", node_idx, 0, event_type, <<>>, 0, None)
    /\ UNCHANGED <<panicked, cyc, parserVars, cssVars, selVars, layoutVars, lockVars>>

\* calculate_layout against some viewport; on a Document whose child lists loop
\* below the root the recursion never returns and the stack overflows
CalculateLayout ==
    /\ ~panicked
    /\ nOps < MaxOps
    /\ nOps' = nOps + 1
    /\ \E vp \in Viewports :
        /\ viewport' = vp
        /\ IF RecursesForever(nodes, 0)
           THEN /\ panicked' = TRUE
                /\ UNCHANGED <<nodes, visits>>
           ELSE LET r == calculate_layout(nodes, Px(vp.width), Px(vp.height))
                IN  /\ nodes' = r.nodes
                    /\ visits' = r.visits
                    /\ UNCHANGED panicked
        /\ lastOp' = Call("calculate_layout", vp.width, vp.height, <<>>, <<>>, 0, None)
    /\ UNCHANGED <<cyc, styles, parserVars, cssVars, selVars, lockVars>>

DocNext ==
    \/ nOps < MaxDocOps /\ CreateElement
    \/ nOps < MaxDocOps /\ CreateTextNode
    \/ nOps < MaxDocOps /\ AppendChild
    \/ nOps < MaxDocOps /\ SetAttribute
    \/ nOps < MaxDocOps /\ RemoveAttribute
    \/ nOps < MaxDocOps /\ AttachShadow
    \/ nOps < MaxDocOps /\ AddEventListener
    \/ nOps < MaxDocOps /\ CalculateLayout

DocSpec == Init /\ [][DocNext]_vars

----------------------------------------------------------------------------
(* A layout pass over a styled tree, as layout.rs's callers set it up: a      *)
(* Document is built, the style of some nodes is written field by field, and  *)
(* calculate_layout_recursive runs from the root against the viewport         *)

MaxStyleEdits == 3

\* append_child for each <<parent, child>> pair in turn
RECURSIVE AppendAll(_, _)
AppendAll(ns, pairs) ==
    IF pairs = <<>> THEN ns
    ELSE AppendAll(append_child(ns, Head(pairs)[1], Head(pairs)[2]).nodes, Tail(pairs))

\* Three Elements, or two Elements and a Text node, under the root
ThreeElements ==
    create_element(create_element(create_element(DocumentNew, <<"a">>), <<"b">>), <<"a">>)
TwoElementsAndText ==
    create_text_node(create_element(create_element(DocumentNew, <<"a">>), <<"b">>), <<"x">>)

\* The trees laid out: the root alone; a chain; a container with two children,
\* one of them a Text node; two children of the root, the first with a child of
\* its own; an Element with a Text child beside a detached Element
LayoutDocuments ==
    { DocumentNew,
      AppendAll(ThreeElements, << <<0, 1>>, <<1, 2>>, <<2, 3>> >>),
      AppendAll(TwoElementsAndText, << <<0, 1>>, <<1, 2>>, <<1, 3>> >>),
      AppendAll(ThreeElements, << <<0, 1>>, <<0, 2>>, <<1, 3>> >>),
      AppendAll(TwoElementsAndText, << <<0, 1>>, <<1, 3>> >>) }

\* The writes to one field of a ComputedStyle
StyleEdit(field, value) == [field |-> field, value |-> value]
StyleEdits ==
    {StyleEdit("width", Some(v)) :
        v \in {CssPixels(416), CssPixels(48), CssPercentage(50), CssAuto, CssInherit}}
    \cup {StyleEdit("height", Some(v)) : v \in {CssPixels(32), CssPercentage(50)}}
    \cup {StyleEdit("padding_left", Some(CssPixels(104))),
          StyleEdit("padding_top", Some(CssPixels(104))),
          StyleEdit("border_width", Some(CssPixels(8))),
          StyleEdit("margin_left", Some(CssPixels(16))),
          StyleEdit("margin_top", Some(CssPercentage(50))),
          StyleEdit("font_size", None),
          StyleEdit("font_size", Some(CssPixels(32)))}

\* The display modes written
DisplayEdits == {"Flex", "Inline"}

LayoutInit ==
    /\ nodes \in LayoutDocuments
    /\ styles = DefaultStyles(nodes)
    /\ viewport = [width |-> 256, height |-> 256]
    /\ visits = <<>>
    /\ panicked = FALSE
    /\ lastOp = NoCall
    /\ cyc = FALSE
    /\ nOps = 0
    /\ ParserIdle
    /\ CssIdle
    /\ SelIdle
    /\ LockIdle

\* styles[i].field = value, before the pass
SetStyle ==
    /\ lastOp = NoCall
    /\ nOps < MaxStyleEdits
    /\ nOps' = nOps + 1
    /\ \E i \in 0..(Len(nodes) - 1) :
        \/ \E e \in StyleEdits : styles' = [styles EXCEPT ![i + 1][e.field] = e.value]
        \/ \E d \in DisplayEdits : styles' = [styles EXCEPT ![i + 1].display = d]
    /\ UNCHANGED <<nodes, panicked, lastOp, cyc, viewport, visits,
                   parserVars, cssVars, selVars, lockVars>>

\* calculate_layout_recursive(document, root, styles, viewport)
LayoutPass ==
    /\ lastOp = NoCall
    /\ LET r == calculate_layout_recursive(Laid(nodes, <<>>), 0, styles,
                                           Px(viewport.width), Px(viewport.height))
       IN  /\ nodes' = r.nodes
           /\ visits' = r.visits
    /\ lastOp' = Call("calculate_layout_recursive", 0, 0, <<>>, <<>>, 0, None)
    /\ UNCHANGED <<panicked, cyc, nOps, styles, viewport, parserVars, cssVars, selVars, lockVars>>

LayoutNext == SetStyle \/ LayoutPass

LayoutSpec == LayoutInit /\ [][LayoutNext]_vars

----------------------------------------------------------------------------
(* main.rs: the host driver and the callbacks it gives to script, around the  *)
(* Document mutex.  All of it runs on one thread: the host lays the Document  *)
(* out under the lock, then evaluates the script, which calls the callbacks.  *)
(* customFixture reads the entries of an object the script passed while it    *)
(* holds the lock; reading an entry evaluates script (a getter of the object) *)
(* which may itself call a callback.                                          *)

MaxCalls == 3
MaxItems == 1

\* parse_html("<html><body><h1>Hello, World!</h1></body></html>"): the root, html
\* under it, body under html, h1 under body and the text under h1
MainDocument ==
    AppendAll(
        create_text_node(
            create_element(
                create_element(
                    create_element(DocumentNew, <<"h", "t", "m", "l">>),
                    <<"b", "o", "d", "y">>),
                <<"h", "1">>),
            <<"H", "e", "l", "l", "o", ",", " ", "W", "o", "r", "l", "d", "!">>),
        << <<0, 1>>, <<1, 2>>, <<2, 3>>, <<3, 4>> >>)

\* The mode texts script passes to attachShadow
ModeTexts == {"open", "closed", "x"}

\* A callback in progress: its name, where it stands, its index argument (for
\* customFixture the index of the element it created), its text argument, and
\* the number of entries of the attributes object still to read
Frame(fn, at, i, k, left) == [fn |-> fn, pc |-> at, i |-> i, k |-> k, left |-> left]

Top == frames[Len(frames)]
SetTop(f) == [frames EXCEPT ![Len(frames)] = f]
Pop == SubSeq(frames, 1, Len(frames) - 1)

LockInit ==
    /\ nodes = MainDocument
    /\ mutex = "free"
    /\ hostPc = "setup"
    /\ frames = <<>>
    /\ panicked = FALSE
    /\ lastOp = NoCall
    /\ cyc = FALSE
    /\ nOps = 0
    /\ ParserIdle
    /\ CssIdle
    /\ SelIdle
    /\ LayoutIdle

\* document_arc.lock().unwrap() in main
HostLock ==
    /\ hostPc = "setup"
    /\ mutex = "free"
    /\ mutex' = "host"
    /\ hostPc' = "locked"
    /\ UNCHANGED <<domVars, frames, parserVars, cssVars, selVars, layoutVars>>

\* layout::calculate_layout(&mut document_for_layout, 256.0, 256.0)
HostLayout ==
    /\ hostPc = "locked"
    /\ LET r == calculate_layout(nodes, Px(256), Px(256))
       IN  /\ nodes' = r.nodes
           /\ visits' = r.visits
    /\ viewport' = [width |-> 256, height |-> 256]
    /\ hostPc' = "laid"
    /\ UNCHANGED <<panicked, lastOp, cyc, nOps, styles, mutex, frames,
                   parserVars, cssVars, selVars>>

\* drop(document_for_layout)
HostUnlock ==
    /\ hostPc = "laid"
    /\ mutex' = "free"
    /\ hostPc' = "render"
    /\ UNCHANGED <<domVars, frames, parserVars, cssVars, selVars, layoutVars>>

\* The image is drawn and written; the Document is not touched
HostRender ==
    /\ hostPc = "render"
    /\ hostPc' = "eval"
    /\ UNCHANGED <<domVars, mutex, frames, parserVars, cssVars, selVars, layoutVars>>

\* Script calls a callback: from the top level of the script, or from a getter
\* that runs while customFixture reads an entry of its attributes object
ScriptCall ==
    /\ hostPc = "eval"
    /\ ~panicked
    /\ nOps < MaxCalls
    /\ nOps' = nOps + 1
    /\ \/ frames = <<>>
       \/ /\ frames # <<>>
          /\ Top.fn = "customFixture"
          /\ Top.pc = "iterating"
          /\ Top.left > 0
    /\ \/ \E i \in {1, Len(nodes)}, mode \in ModeTexts :
            frames' = Append(frames, Frame("attachShadow", "called", i, <<mode>>, 0))
       \/ \E i \in {1, Len(nodes)}, fn \in {"addEventListener", "dispatchEvent"},
             event_type \in EventTypes :
            frames' = Append(frames, Frame(fn, "called", i, event_type, 0))
       \/ \E tag \in Tags, left \in 0..MaxItems :
            frames' = Append(frames, Frame("customFixture", "called", 0, tag, left))
    /\ UNCHANGED <<nodes, panicked, lastOp, cyc, mutex, hostPc,
                   parserVars, cssVars, selVars, layoutVars>>

\* lock().unwrap() at the head of a callback, the mutex being free
CallbackLock ==
    /\ frames # <<>>
    /\ ~panicked
    /\ Top.pc = "called"
    /\ mutex = "free"
    /\ mutex' = "script"
    /\ frames' = SetTop([Top EXCEPT !.pc = "locked"])
    /\ UNCHANGED <<domVars, hostPc, parserVars, cssVars, selVars, layoutVars>>

\* lock() on a mutex the thread already holds never returns: it blocks for ever,
\* which is no step at all, or it panics, which is this step
RelockPanics ==
    /\ frames # <<>>
    /\ ~panicked
    /\ Top.pc = "called"
    /\ mutex # "free"
    /\ panicked' = TRUE
    /\ UNCHANGED <<nodes, lastOp, cyc, nOps, lockVars, parserVars, cssVars, selVars, layoutVars>>

\* attachShadow under the lock: the mode text is matched, then attach_shadow
AttachShadowBody ==
    /\ frames # <<>>
    /\ Top.fn = "attachShadow"
    /\ Top.pc = "locked"
    /\ nodes' = (IF Top.k = <<"open">> THEN attach_shadow(nodes, Top.i, "Open").nodes
                 ELSE IF Top.k = <<"closed">> THEN attach_shadow(nodes, Top.i, "Closed").nodes
                 ELSE nodes)
    /\ frames' = SetTop([Top EXCEPT !.pc = "ran"])
    /\ lastOp' = Call("attachShadow", Top.i, 0, Top.k, <<>>, 0, None)
    /\ UNCHANGED <<panicked, cyc, nOps, mutex, hostPc, parserVars, cssVars, selVars, layoutVars>>

\* addEventListener under the lock
AddEventListenerBody ==
    /\ frames # <<>>
    /\ Top.fn = "addEventListener"
    /\ Top.pc = "locked"
    /\ nodes' = add_event_listener(nodes, Top.i, Top.k, 0)
    /\ frames' = SetTop([Top EXCEPT !.pc = "ran"])
    /\ lastOp' = Call("addEventListener", Top.i, 0, Top.k, <<>>, 0, None)
    /\ UNCHANGED <<panicked, cyc, nOps, mutex, hostPc, parserVars, cssVars, selVars, layoutVars>>

\* dispatchEvent under the lock: the Document is read, a line printed for each
\* node with listeners
DispatchEventBody ==
    /\ frames # <<>>
    /\ Top.fn = "dispatchEvent"
    /\ Top.pc = "locked"
    /\ frames' = SetTop([Top EXCEPT !.pc = "ran"])
    /\ lastOp' = Call("dispatchEvent", Top.i, 0, Top.k, <<>>,
                      Len(dispatch_event(nodes, Top.i, Top.k)), None)
    /\ UNCHANGED <<nodes, panicked, cyc, nOps, mutex, hostPc,
                   parserVars, cssVars, selVars, layoutVars>>

\* customFixture under the lock: the element is created and appended to node 2
CustomFixtureBody ==
    /\ frames # <<>>
    /\ Top.fn = "customFixture"
    /\ Top.pc = "locked"
    /\ LET r == append_child(create_element(nodes, Top.k), 2, Len(nodes))
       IN  /\ nodes' = r.nodes
           /\ panicked' = r.panic
    /\ frames' = SetTop([Top EXCEPT !.pc = "iterating", !.i = Len(nodes)])
    /\ lastOp' = Call("customFixture", Len(nodes), 0, Top.k, <<>>, Len(nodes), None)
    /\ UNCHANGED <<cyc, nOps, mutex, hostPc, parserVars, cssVars, selVars, layoutVars>>

\* customFixture, one entry of the attributes object: set_attribute
CustomFixtureItem ==
    /\ frames # <<>>
    /\ ~panicked
    /\ Top.fn = "customFixture"
    /\ Top.pc = "iterating"
    /\ Top.left > 0
    /\ \E k \in AttrNames, v \in AttrValues :
        /\ nodes' = set_attribute(nodes, Top.i, k, v)
        /\ lastOp' = Call("set_attribute", Top.i, 0, k, v, 0, get_attribute(nodes, Top.i, k))
    /\ frames' = SetTop([Top EXCEPT !.left = @ - 1])
    /\ UNCHANGED <<panicked, cyc, nOps, mutex, hostPc, parserVars, cssVars, selVars, layoutVars>>

\* A callback returns, after its last entry or on an entry it cannot read; its
\* guard goes out of scope and the mutex is released
CallbackReturn ==
    /\ frames # <<>>
    /\ ~panicked
    /\ Top.pc \in {"ran", "iterating"}
    /\ frames' = Pop
    /\ mutex' = "free"
    /\ UNCHANGED <<domVars, hostPc, parserVars, cssVars, selVars, layoutVars>>

\* ctx.eval returns
ScriptEnd ==
    /\ hostPc = "eval"
    /\ ~panicked
    /\ frames = <<>>
    /\ hostPc' = "done"
    /\ UNCHANGED <<domVars, mutex, frames, parserVars, cssVars, selVars, layoutVars>>

LockNext ==
    \/ HostLock
    \/ HostLayout
    \/ HostUnlock
    \/ HostRender
    \/ ScriptCall
    \/ CallbackLock
    \/ RelockPanics
    \/ AttachShadowBody
    \/ AddEventListenerBody
    \/ DispatchEventBody
    \/ CustomFixtureBody
    \/ CustomFixtureItem
    \/ CallbackReturn
    \/ ScriptEnd

LockSpec == LockInit /\ [][LockNext]_vars

----------------------------------------------------------------------------
(* parse_html, one step for each turn of its loops *)

MaxFragments == 4

\* The pieces markup is put together from
HtmlFragments ==
    {<<"<">>, <<">">>, <<"/">>, <<"=">>, <<"\"">>, <<" ">>, <<"x">>,
     <<"<", "a", ">">>, <<"<", "/", "a", ">">>, <<"<", "/", "A", ">">>, <<"<", "b", " ">>}

\* Every text made of at most n fragments
RECURSIVE HtmlInputs(_)
HtmlInputs(n) ==
    IF n = 0 THEN {<<>>}
    ELSE LET shorter == HtmlInputs(n - 1)
         IN  shorter \cup {t \o f : t \in shorter, f \in HtmlFragments}

ParserInit ==
    /\ html \in HtmlInputs(MaxFragments)
    /\ pos = 1
    /\ pc = "main"
    /\ nodes = DocumentNew
    /\ current_parent_idx = Some(0)
    /\ tag_name = <<>>
    /\ attributes = EmptyMap
    /\ turnStart = 0
    /\ panicked = FALSE
    /\ lastOp = NoCall
    /\ cyc = FALSE
    /\ nOps = 0
    /\ CssIdle
    /\ SelIdle
    /\ LayoutIdle
    /\ LockIdle

AtChar(c) == pos <= Len(html) /\ html[pos] = c
IsEndTag == AtChar("<") /\ pos + 1 <= Len(html) /\ html[pos + 1] = "/"

\* '<' then '/': a close tag pops the insertion parent when the names agree,
\* then everything up to and with the next '>' is skipped
EndTag ==
    /\ pc = "main" /\ ~panicked
    /\ IsEndTag
    /\ LET name == consume_tag_name(html, pos + 2)
       IN  /\ current_parent_idx' = PopIfMatches(nodes, current_parent_idx, name.text)
           /\ pos' = Advance(html, consume_until(html, name.pos, ">"))
    /\ turnStart' = pos
    /\ UNCHANGED <<pc, html, tag_name, attributes, domVars, cssVars, selVars, layoutVars, lockVars>>

\* '<' and no '/': the tag name is read and the attribute loop entered
StartTagOpen ==
    /\ pc = "main" /\ ~panicked
    /\ AtChar("<") /\ ~IsEndTag
    /\ LET name == consume_tag_name(html, pos + 1)
       IN  /\ tag_name' = name.text
           /\ pos' = name.pos
    /\ attributes' = EmptyMap
    /\ pc' = "attrs"
    /\ turnStart' = pos
    /\ UNCHANGED <<html, current_parent_idx, domVars, cssVars, selVars, layoutVars, lockVars>>

\* consume_attributes: whitespace is skipped
AttrSkipWhitespace ==
    /\ pc = "attrs" /\ ~panicked
    /\ pos <= Len(html) /\ IsWhitespace(html[pos])
    /\ pos' = pos + 1
    /\ turnStart' = pos
    /\ UNCHANGED <<pc, html, current_parent_idx, tag_name, attributes, domVars, cssVars, selVars, layoutVars, lockVars>>

\* consume_attributes: one attribute is read
AttrParse ==
    /\ pc = "attrs" /\ ~panicked
    /\ pos <= Len(html) /\ ~IsWhitespace(html[pos]) /\ html[pos] \notin {">", "/"}
    /\ LET attr == consume_attribute(html, pos)
       IN  /\ attributes' = MapInsert(attributes, attr.name, attr.value)
           /\ pos' = attr.pos
    /\ turnStart' = pos
    /\ UNCHANGED <<pc, html, current_parent_idx, tag_name, domVars, cssVars, selVars, layoutVars, lockVars>>

\* consume_attributes ends at '>', '/' or the end of the text; the rest up to
\* and with '>' is skipped, the Element created, given its attributes, appended
\* under the insertion parent and made the insertion parent
StartTagClose ==
    /\ pc = "attrs" /\ ~panicked
    /\ IF pos > Len(html) THEN TRUE ELSE html[pos] \in {">", "/"}
    /\ pos' = Advance(html, consume_until(html, pos, ">"))
    /\ LET new_element_idx == Len(nodes)
           created == SetAttributes(create_element(nodes, tag_name), new_element_idx, attributes)
           r == AppendUnder(created, current_parent_idx, new_element_idx)
       IN  /\ nodes' = r.nodes
           /\ panicked' = r.panic
           /\ current_parent_idx' = Some(new_element_idx)
    /\ pc' = "main"
    /\ UNCHANGED <<html, tag_name, attributes, turnStart, lastOp, cyc, nOps, cssVars, selVars, layoutVars, lockVars>>

\* Any other character: a text run up to the next '<', kept as a Text node
\* under the insertion parent unless it is all whitespace
TextRun ==
    /\ pc = "main" /\ ~panicked
    /\ pos <= Len(html) /\ html[pos] # "<"
    /\ LET run == consume_text(html, pos)
           r == AppendUnder(create_text_node(nodes, run.text), current_parent_idx, Len(nodes))
       IN  /\ pos' = run.pos
           /\ IF trim(run.text) # <<>>
              THEN nodes' = r.nodes /\ panicked' = r.panic
              ELSE UNCHANGED <<nodes, panicked>>
    /\ turnStart' = pos
    /\ UNCHANGED <<pc, html, current_parent_idx, tag_name, attributes, lastOp, cyc, nOps,
                   cssVars, selVars, layoutVars, lockVars>>

\* The text is exhausted: parse_html returns the Document
ParseReturn ==
    /\ pc = "main" /\ ~panicked
    /\ pos > Len(html)
    /\ pc' = "done"
    /\ UNCHANGED <<html, pos, current_parent_idx, tag_name, attributes, turnStart, domVars,
                   cssVars, selVars, layoutVars, lockVars>>

ParserNext ==
    \/ EndTag
    \/ StartTagOpen
    \/ AttrSkipWhitespace
    \/ AttrParse
    \/ StartTagClose
    \/ TextRun
    \/ ParseReturn

ParserSpec == ParserInit /\ [][ParserNext]_vars

----------------------------------------------------------------------------
(* parse_css and specified_values on a styled document *)

MaxCssPieces == 3

h1 == <<"h", "1">>
color == <<"c", "o", "l", "o", "r">>
blue == <<"b", "l", "u", "e">>
red == <<"r", "e", "d">>
class == <<"c", "l", "a", "s", "s">>

\* The pieces style sheets are put together from
CssPieces ==
    {h1 \o <<"{">> \o color \o <<":">> \o blue \o <<"}">>,
     h1 \o <<"{">> \o color \o <<":">> \o red \o <<"}">>,
     h1 \o <<"{">> \o color \o <<":">> \o blue \o <<";", "}">>,
     <<"p", "{">> \o color \o <<":">> \o red \o <<";", "}">>,
     color \o <<":">> \o red,
     h1, <<"p">>, <<" ">>, <<",">>, <<"{">>, <<"}">>, <<";">>}

RECURSIVE CssInputs(_)
CssInputs(n) ==
    IF n = 0 THEN {<<>>}
    ELSE LET shorter == CssInputs(n - 1)
         IN  shorter \cup {t \o f : t \in shorter, f \in CssPieces}

\* The document <h1><p class="x"></p></h1>: h1 is node 1, p node 2
StyledDocument ==
    LET withH1 == append_child(create_element(DocumentNew, h1), 0, 1).nodes
        withP == set_attribute(create_element(withH1, <<"p">>), 2, class, <<"x">>)
    IN  append_child(withP, 1, 2).nodes

CssInit ==
    /\ css \in CssInputs(MaxCssPieces)
    /\ cpc = "start"
    /\ rules = <<>>
    /\ style = DefaultStyle
    /\ nodes = StyledDocument
    /\ panicked = FALSE
    /\ lastOp = NoCall
    /\ cyc = FALSE
    /\ nOps = 0
    /\ ParserIdle
    /\ SelIdle
    /\ LayoutIdle
    /\ LockIdle

ParseCss ==
    /\ cpc = "start"
    /\ rules' = parse_css(css)
    /\ cpc' = "parsed"
    /\ UNCHANGED <<css, style, domVars, parserVars, selVars, layoutVars, lockVars>>

StyleNode ==
    /\ cpc = "parsed"
    /\ \E i \in 0..(Len(nodes) - 1) :
        /\ target' = i
        /\ style' = specified_values(nodes[i + 1], rules)
    /\ cpc' = "styled"
    /\ UNCHANGED <<css, rules, selText, selector, matched, domVars, parserVars, layoutVars, lockVars>>

CssNext == ParseCss \/ StyleNode

CssSpec == CssInit /\ [][CssNext]_vars

----------------------------------------------------------------------------
(* parse_selector on every short text *)

MaxSelLen == 4

SelChars == {"#", ".", "[", "]", "=", "\"", "'", " ", "a"}

RECURSIVE SelInputs(_)
SelInputs(n) ==
    IF n = 0 THEN {<<>>}
    ELSE LET shorter == SelInputs(n - 1)
         IN  shorter \cup {Append(t, c) : t \in shorter, c \in SelChars}

SelectorInit ==
    /\ selText \in SelInputs(MaxSelLen)
    /\ selector = Pending
    /\ target = 0
    /\ matched = None
    /\ DomInit
    /\ ParserIdle
    /\ CssIdle
    /\ LayoutIdle
    /\ LockIdle

ParseSelector ==
    /\ selector = Pending
    /\ selector' = parse_selector(selText)
    /\ UNCHANGED <<selText, target, matched, domVars, parserVars, cssVars, layoutVars, lockVars>>

SelectorSpec == SelectorInit /\ [][ParseSelector]_vars

----------------------------------------------------------------------------
(* matches_selector on one Element under the root, beside a Text node *)

MatchTags == {<<"a">>, <<"A">>, <<"b">>}
MatchIds == {<<"x">>, <<"X">>}
MatchClasses == {<<>>, <<"x">>, <<"X">>, <<"x", " ", "y">>, <<"x", "y">>, <<" ", "y", " ">>}
MatchValues == {<<>>, <<"x">>}

MatchSelectors ==
    {Selector("Element", t, <<>>) : t \in MatchTags}
    \cup {Selector("Id", v, <<>>) : v \in MatchIds}
    \cup {Selector("Class", c, <<>>) : c \in {<<>>, <<"x">>, <<"y">>, <<"x", " ", "y">>}}
    \cup {Selector("Attribute", k, v) : k \in {<<"k">>, <<"i", "d">>, class}, v \in {<<>>, <<"x">>}}
    \cup {Selector("AttributeExists", k, <<>>) : k \in {<<"k">>, <<"K">>, <<"i", "d">>}}
    \cup {Selector("Descendant", <<>>, <<>>), Selector("Child", <<>>, <<>>)}

\* set_attribute when the value is Some, nothing otherwise
SetIfSome(ns, i, k, v) == IF IsSome(v) THEN set_attribute(ns, i, k, Unwrap(v)) ELSE ns

\* The document <tag id=.. class=.. k=..>x</tag>: the Element is node 1, the Text node 2
MatchDocument(tag, id, cls, k) ==
    LET withElement == append_child(create_element(DocumentNew, tag), 0, 1).nodes
        withAttrs == SetIfSome(SetIfSome(SetIfSome(withElement, 1, <<"i", "d">>, id), 1, class, cls),
                               1, <<"k">>, k)
    IN  append_child(create_text_node(withAttrs, <<"x">>), 1, 2).nodes

Optional(S) == {None} \cup {Some(x) : x \in S}

MatchInit ==
    /\ \E tag \in MatchTags, id \in Optional(MatchIds), cls \in Optional(MatchClasses),
          k \in Optional(MatchValues) :
        nodes = MatchDocument(tag, id, cls, k)
    /\ selector \in {Ok(sel) : sel \in MatchSelectors}
    /\ target \in 0..3
    /\ matched = None
    /\ selText = <<>>
    /\ panicked = FALSE
    /\ lastOp = NoCall
    /\ cyc = FALSE
    /\ nOps = 0
    /\ ParserIdle
    /\ CssIdle
    /\ LayoutIdle
    /\ LockIdle

MatchesSelector ==
    /\ matched = None
    /\ matched' = Some(matches_selector(nodes, target, selector.sel))
    /\ UNCHANGED <<selText, selector, target, domVars, parserVars, cssVars, layoutVars, lockVars>>

MatchSpec == MatchInit /\ [][MatchesSelector]_vars

----------------------------------------------------------------------------
(* The tree invariant of the Document *)

\* How many times x occurs in seq
Occurrences(seq, x) == Cardinality({n \in DOMAIN seq : seq[n] = x})

\* Every node with a parent occurs exactly once in that parent's child list
ChildOfItsParent(ns) ==
    \A i \in 0..(Len(ns) - 1) :
        IsSome(ns[i + 1].parent) =>
            /\ InRange(ns, Unwrap(ns[i + 1].parent))
            /\ Occurrences(ns[Unwrap(ns[i + 1].parent) + 1].children, i) = 1

\* Every index in a child list names a node whose parent is the list's owner
ParentOfItsChildren(ns) ==
    \A i \in 0..(Len(ns) - 1) : \A n \in DOMAIN ns[i + 1].children :
        /\ InRange(ns, ns[i + 1].children[n])
        /\ ns[ns[i + 1].children[n] + 1].parent = Some(i)

ParentChildConsistent(ns) == ChildOfItsParent(ns) /\ ParentOfItsChildren(ns)

\* The part of the arena below the root is a tree: parents and child lists agree
\* and the root has no parent
TreeShaped(ns) == ParentChildConsistent(ns) /\ ns[1].parent = None

----------------------------------------------------------------------------
(* Claims about the Document operations, under Spec *)

\* C2: after any sequence of create_element / create_text_node / append_child
\* calls with in-range indices in which no node is appended under itself or one
\* of its descendants, every node with a parent occurs exactly once in that
\* parent's child list and every child-list entry names a node whose parent is
\* the list's owner.  (The code does not keep this: append_child never detaches.)
C2_ParentChildAgree == (~panicked /\ ~cyc) => ParentChildConsistent(nodes)

\* C3, as claimed: for every in-range index i, get_attribute(i, k) right after
\* set_attribute(i, k, v) returns v.
C3_RoundTripAnyIndex ==
    (lastOp.op = "set_attribute" /\ InRange(nodes, lastOp.i)) =>
        get_attribute(nodes, lastOp.i, lastOp.k) = Some(lastOp.v)

\* C3, amended: for every index i naming an Element, get_attribute(i, k) right
\* after set_attribute(i, k, v) returns v, also when k held another value.
C3_RoundTripElement ==
    (lastOp.op = "set_attribute" /\ InRange(nodes, lastOp.i)
        /\ nodes[lastOp.i + 1].node_type = "Element") =>
        get_attribute(nodes, lastOp.i, lastOp.k) = Some(lastOp.v)

\* C3's case: set_attribute has just overwritten another value of an Element
C3_Witness ==
    /\ lastOp.op = "set_attribute"
    /\ InRange(nodes, lastOp.i)
    /\ nodes[lastOp.i + 1].node_type = "Element"
    /\ IsSome(lastOp.old)
    /\ Unwrap(lastOp.old) # lastOp.v
    /\ get_attribute(nodes, lastOp.i, lastOp.k) = Some(lastOp.v)

\* C4: append_child with an out-of-range parent or child index does not fail and
\* leaves the Document unchanged.  (The code panics, after the push when only the
\* child is out of range.)
C4_AppendOutOfRangeNoOp ==
    [][(lastOp'.op = "append_child" /\ nOps' = nOps + 1
          /\ (~InRange(nodes, lastOp'.i) \/ ~InRange(nodes, lastOp'.j)))
        => (~panicked' /\ nodes' = nodes)]_vars

----------------------------------------------------------------------------
(* Claims about query_selector_all, under Spec *)

QueryTexts == {<<"a">>, <<"B">>, <<"#", "x">>, <<"[", "k", "]">>}

\* The position of node i in its parent's child list
ChildPosition(ns, i) ==
    CHOOSE n \in DOMAIN ns[Unwrap(ns[i + 1].parent) + 1].children :
        ns[Unwrap(ns[i + 1].parent) + 1].children[n] = i

\* The child positions leading from the root to node i, following parent links
RECURSIVE PathFromRoot(_, _)
PathFromRoot(ns, i) ==
    IF ns[i + 1].parent = None THEN <<>>
    ELSE Append(PathFromRoot(ns, Unwrap(ns[i + 1].parent)), ChildPosition(ns, i))

\* Document order of paths: an ancestor first, else the earlier branch first
PathBefore(p, q) ==
    \/ Len(p) < Len(q) /\ SubSeq(q, 1, Len(p)) = p
    \/ \E n \in 1..Min(Len(p), Len(q)) :
        /\ SubSeq(p, 1, n - 1) = SubSeq(q, 1, n - 1)
        /\ p[n] < q[n]

\* r lists exactly the matching Elements below the root, once each, in pre-order
PreOrderMatches(ns, sel, r) ==
    /\ {r[n] : n \in DOMAIN r} = {i \in Subtree(ns, 0) \ {0} : matches_selector(ns, i, sel)}
    /\ \A n \in DOMAIN r : r[n] # 0 /\ ns[r[n] + 1].node_type = "Element"
    /\ \A m, n \in DOMAIN r :
        m < n => PathBefore(PathFromRoot(ns, r[m]), PathFromRoot(ns, r[n]))

\* C9: on a tree-shaped Document query_selector_all returns exactly the Elements
\* reachable from the root that match, each once, in pre-order; never the root
\* nor a Text node.
C9_QueryPreOrder ==
    (~panicked /\ TreeShaped(nodes)) =>
        \A text \in QueryTexts :
            /\ query_selector_all(nodes, text).kind = "Ok"
            /\ PreOrderMatches(nodes, parse_selector(text).sel,
                               query_selector_all(nodes, text).results)

\* C9's case: three matches, the second a child of the first and the third the
\* first's later sibling, so that pre-order differs from level order
C9_Witness ==
    /\ ~panicked
    /\ TreeShaped(nodes)
    /\ \E text \in QueryTexts :
        LET r == query_selector_all(nodes, text).results
        IN  /\ Len(r) = 3
            /\ Len(PathFromRoot(nodes, r[1])) = 1
            /\ Len(PathFromRoot(nodes, r[2])) = 2
            /\ Len(PathFromRoot(nodes, r[3])) = 1

----------------------------------------------------------------------------
(* Claims about parse_html, under ParserSpec *)

\* Following parent links from node i reaches the root within fuel steps
RECURSIVE ClimbsToRoot(_, _, _)
ClimbsToRoot(ns, i, fuel) ==
    \/ i = 0
    \/ /\ fuel > 0
       /\ InRange(ns, i)
       /\ IsSome(ns[i + 1].parent)
       /\ ClimbsToRoot(ns, Unwrap(ns[i + 1].parent), fuel - 1)

\* The tree invariant of a parsed Document
ParsedTree(ns) ==
    /\ ns[1].node_type = "Document" /\ ns[1].parent = None
    /\ \A i \in 1..(Len(ns) - 1) : IsSome(ns[i + 1].parent)
    /\ ParentChildConsistent(ns)
    /\ \A i \in 0..(Len(ns) - 1) : ClimbsToRoot(ns, i, Len(ns))

\* C1: for every input the Document parse_html returns has node 0 as its root,
\* a parent for every other node, each non-root index exactly once in its
\* parent's child list and in no other, and a parent chain from every node to
\* the root.
C1_ParsedTree == pc = "done" => ParsedTree(nodes)

\* C1's case: a returned Document three levels deep, a Text node at the bottom,
\* the insertion parent popped once by a close tag
C1_Witness ==
    /\ pc = "done"
    /\ Len(nodes) = 4
    /\ nodes[4].node_type = "Text"
    /\ Len(PathFromRoot(nodes, 3)) = 3
    /\ current_parent_idx = Some(1)

\* C8: parse_html returns for every input without panicking: until it returns
\* it can always take a step, and every turn of the main loop and of the
\* attribute loop has consumed at least one character.
C8_ParserTotal ==
    /\ ~panicked
    /\ pc # "done" => ENABLED ParserNext
    /\ pos > turnStart
    /\ pos <= Len(html) + 1

\* C8's case: the parser has returned from markup that ends inside a start tag,
\* after a stray '=' and an unclosed quote
C8_Witness ==
    /\ pc = "done"
    /\ Len(html) > 0
    /\ html[Len(html)] = "\""
    /\ Len(nodes) = 2
    /\ <<>> \in DOMAIN nodes[2].data.attributes

----------------------------------------------------------------------------
(* Claims about parse_css and the cascade, under CssSpec *)

BlueThenRed ==
    h1 \o <<"{">> \o color \o <<":">> \o blue \o <<"}", " ">>
       \o h1 \o <<"{">> \o color \o <<":">> \o red \o <<"}">>

\* C5: the style sheet `h1{color:blue} h1{color:red}` resolved for an h1 element
\* gives color red, the value of the later of the two blocks.  (The code reads
\* one rule, color blue: the first block's missing ';' swallows the second.)
C5_LaterBlockWins ==
    (cpc = "styled" /\ css = BlueThenRed /\ target = 1) => style.color = Some(red)

\* The place of the last ch in s, 0 when it has none
LastPlace(s, ch) ==
    LET at == {n \in DOMAIN s : s[n] = ch}
    IN  IF at = {} THEN 0 ELSE CHOOSE n \in at : \A m \in at : m <= n

\* C7: parse_css returns only complete rules: text after the last '}' that
\* opens no declaration block of its own adds no Rule to those of the text
\* before it.  (The code makes a Rule with no declarations of it.)
C7_TrailingTextDropped ==
    (cpc # "start"
        /\ \A n \in (LastPlace(css, "}") + 1)..Len(css) : css[n] # "{")
    => rules = parse_css(SubSeq(css, 1, LastPlace(css, "}")))

----------------------------------------------------------------------------
(* Claims about parse_selector, under SelectorSpec *)

\* C6: parse_selector returns an error exactly when its input is empty or all
\* whitespace, and a Selector for every other input, never a panic.  (The code
\* panics on a bracketed form whose value is one quote character.)
C6_ErrOnlyOnEmpty ==
    selector # Pending =>
        /\ selector.kind # "Panic"
        /\ selector.kind = "Err" <=> (\A n \in DOMAIN selText : IsWhitespace(selText[n]))

----------------------------------------------------------------------------
(* Claims about matches_selector, under MatchSpec *)

\* a and b are equal but for the case of their letters
EqualIgnoringCase(a, b) ==
    /\ Len(a) = Len(b)
    /\ \A n \in DOMAIN a : CharToLower(a[n]) = CharToLower(b[n])

\* token is one of the whitespace-separated words of text
HasToken(text, token) ==
    /\ token # <<>>
    /\ \A n \in DOMAIN token : ~IsWhitespace(token[n])
    /\ \E lo \in DOMAIN text :
        /\ lo + Len(token) - 1 <= Len(text)
        /\ SubSeq(text, lo, lo + Len(token) - 1) = token
        /\ lo = 1 \/ IsWhitespace(text[lo - 1])
        /\ lo + Len(token) - 1 = Len(text) \/ IsWhitespace(text[lo + Len(token)])

\* What the selector engine is to decide for an Element with these tag and attributes
ExpectedMatch(tag, attrs, sel) ==
    CASE sel.tag = "Element" -> EqualIgnoringCase(tag, sel.a)
      [] sel.tag = "Id" -> <<"i", "d">> \in DOMAIN attrs /\ attrs[<<"i", "d">>] = sel.a
      [] sel.tag = "Class" -> class \in DOMAIN attrs /\ HasToken(attrs[class], sel.a)
      [] sel.tag = "Attribute" -> sel.a \in DOMAIN attrs /\ attrs[sel.a] = sel.b
      [] sel.tag = "AttributeExists" -> sel.a \in DOMAIN attrs
      [] OTHER -> FALSE

\* C10: an Element-name selector matches an Element iff the tag names are equal
\* ignoring case, an Id selector iff the id attribute equals the id exactly, a
\* Class selector iff the class attribute split on whitespace contains the
\* token, an Attribute selector iff the named attribute has exactly the value,
\* an AttributeExists selector iff the attribute is present, even when empty;
\* nothing but an Element matches.
C10_MatchDecision ==
    IsSome(matched) =>
        Unwrap(matched) =
            (/\ InRange(nodes, target)
             /\ nodes[target + 1].node_type = "Element"
             /\ ExpectedMatch(nodes[target + 1].data.tag_name,
                              nodes[target + 1].data.attributes, selector.sel))

\* C10's case: an Element-name selector has matched a tag written in the other
\* case, on an Element whose class holds two tokens and whose k is empty
C10_Witness ==
    /\ matched = Some(TRUE)
    /\ selector.sel.tag = "Element"
    /\ nodes[target + 1].data.tag_name # selector.sel.a
    /\ get_attribute(nodes, target, class) = Some(<<"x", " ", "y">>)
    /\ get_attribute(nodes, target, <<"k">>) = Some(<<>>)

----------------------------------------------------------------------------
(* Claims about query_selector, under Spec *)

\* Selector texts given to query_selector: those of QueryTexts, the empty and the
\* blank text, and a bracketed form whose value is a lone quote character
QuerySelectorTexts ==
    QueryTexts \cup {<<>>, <<" ">>, <<"[", "k", "=", "\"", "]">>}

\* C11: query_selector returns the first element of query_selector_all's
\* sequence, Ok(None) when nothing matches and in particular on a root-only
\* Document for any selector, and an error only when the selector fails to
\* parse; it returns in every case.
C11_QuerySelectorFirst ==
    (~panicked /\ TreeShaped(nodes)) =>
        \A text \in QuerySelectorTexts :
            LET one == query_selector(nodes, text)
                all == query_selector_all(nodes, text)
            IN  /\ one.kind \in {"Ok", "Err"}
                /\ one.kind = "Err" <=> parse_selector(text).kind = "Err"
                /\ one.kind = "Ok" =>
                      /\ all.kind = "Ok"
                      /\ one.result = (IF all.results = <<>> THEN None
                                       ELSE Some(all.results[1]))
                /\ (Len(nodes) = 1 /\ parse_selector(text).kind # "Err") =>
                      one = [kind |-> "Ok", result |-> None]

----------------------------------------------------------------------------
(* Claims about attach_shadow, under DocSpec *)

\* The host an attach_shadow call may succeed on
CanAttach(ns, h) ==
    InRange(ns, h) /\ ns[h + 1].node_type = "Element" /\ ns[h + 1].shadow_root = None

\* The error the claim names for a host that cannot take a shadow root
ExpectedAttachError(ns, h) ==
    IF ~InRange(ns, h) THEN ErrHostNotFound
    ELSE IF ns[h + 1].node_type # "Element" THEN ErrNotElement
    ELSE ErrShadowExists

\* C12: attach_shadow(host, mode) succeeds, returning the host index and
\* recording a shadow root of that mode with no children, exactly when host is
\* an in-range Element without a shadow root; otherwise it returns one of three
\* pairwise distinct errors and leaves the Document as it was; no step of any
\* operation changes a shadow root once set.
C12_AttachShadow ==
    [][/\ (lastOp'.op = "attach_shadow" /\ nOps' = nOps + 1) =>
            LET h == lastOp'.i
            IN  /\ CanAttach(nodes, h) =>
                    /\ lastOp'.v = <<>>
                    /\ lastOp'.ret = h
                    /\ nodes' = [nodes EXCEPT ![h + 1].shadow_root =
                                    Some([mode |-> lastOp'.k[1], children |-> <<>>])]
                /\ ~CanAttach(nodes, h) =>
                    /\ lastOp'.v = <<ExpectedAttachError(nodes, h)>>
                    /\ nodes' = nodes
       /\ Cardinality({ErrShadowExists, ErrNotElement, ErrHostNotFound}) = 3
       /\ \A n \in DOMAIN nodes :
            IsSome(nodes[n].shadow_root) => nodes'[n].shadow_root = nodes[n].shadow_root
      ]_vars

\* C12's case: a second attach_shadow on a host, asking for the other mode, was
\* refused and the host kept the mode it had
C12_Witness ==
    /\ lastOp.op = "attach_shadow"
    /\ lastOp.v = <<ErrShadowExists>>
    /\ InRange(nodes, lastOp.i)
    /\ IsSome(nodes[lastOp.i + 1].shadow_root)
    /\ Unwrap(nodes[lastOp.i + 1].shadow_root).mode # lastOp.k[1]

----------------------------------------------------------------------------
(* Claims about the accessors on indices that name no Element, under DocSpec *)

\* Index i is out of range or names the Document root or a Text node
NamesNoElement(ns, i) == ~InRange(ns, i) \/ ns[i + 1].node_type \in {"Document", "Text"}

\* The accessors other than get_node find nothing at index i, and the attribute
\* writes leave the Document as it is
FailsSoft(ns, i) ==
    /\ tag_name_of(ns, i) = None
    /\ attributes_of(ns, i) = None
    /\ ~is_valid(ns, i)
    /\ \A k \in AttrNames :
        /\ get_attribute(ns, i, k) = None
        /\ ~has_attribute(ns, i, k)
        /\ remove_attribute(ns, i, k) = ns
        /\ \A v \in AttrValues : set_attribute(ns, i, k, v) = ns

\* C13: get_node, get_attribute, has_attribute, tag_name, attributes and
\* is_valid return an absent or false result, and set_attribute and
\* remove_attribute leave the Document unchanged, whenever the index is out of
\* range or names the root or a Text node.
C13_AbsentForNonElement ==
    \A i \in 0..Len(nodes) :
        NamesNoElement(nodes, i) => (get_node(nodes, i) = None /\ FailsSoft(nodes, i))

\* C13 as the code has it: get_node is absent exactly for an index out of range
\* and returns the node for every index in range, the root and Text nodes
\* included; the other accessors are absent or false, and the attribute writes
\* change nothing, for every index that is out of range or names the root or a
\* Text node.
C13_FailSoftAccessors ==
    \A i \in 0..Len(nodes) :
        /\ get_node(nodes, i) = (IF InRange(nodes, i) THEN Some(nodes[i + 1]) ELSE None)
        /\ NamesNoElement(nodes, i) => FailsSoft(nodes, i)

\* C13's case: set_attribute or remove_attribute has just been called on a Text
\* node that hangs in the tree, and on an arena that also holds an Element
C13_Witness ==
    /\ lastOp.op \in {"set_attribute", "remove_attribute"}
    /\ InRange(nodes, lastOp.i)
    /\ nodes[lastOp.i + 1].node_type = "Text"
    /\ IsSome(nodes[lastOp.i + 1].parent)
    /\ \E n \in DOMAIN nodes : nodes[n].node_type = "Element"

----------------------------------------------------------------------------
(* Claims about remove_attribute, under DocSpec *)

\* Attribute names that differ from those in use only in the case of a letter
OtherCaseNames == {<<"I", "D">>, <<"i", "D">>, <<"K">>}

\* C14: after remove_attribute(i, k) has_attribute(i, k) is false, for every
\* index i and name k and whatever was set before; every other attribute of
\* node i and every other node is as it was; names are case-sensitive keys, so
\* that removing a name written in another case removes nothing.
C14_RemoveThenAbsent ==
    [][(lastOp'.op = "remove_attribute" /\ nOps' = nOps + 1) =>
         LET i == lastOp'.i
             k == lastOp'.k
         IN  /\ ~has_attribute(nodes', i, k)
             /\ Len(nodes') = Len(nodes)
             /\ \A n \in DOMAIN nodes : n # i + 1 => nodes'[n] = nodes[n]
             /\ InRange(nodes, i) =>
                  /\ [nodes'[i + 1] EXCEPT !.data.attributes = EmptyMap]
                       = [nodes[i + 1] EXCEPT !.data.attributes = EmptyMap]
                  /\ DOMAIN nodes'[i + 1].data.attributes
                       = DOMAIN nodes[i + 1].data.attributes \ {k}
                  /\ \A a \in DOMAIN nodes'[i + 1].data.attributes :
                        nodes'[i + 1].data.attributes[a] = nodes[i + 1].data.attributes[a]
             /\ \A j \in 0..Len(nodes), a \in OtherCaseNames :
                  /\ remove_attribute(nodes', j, a) = nodes'
                  /\ ~has_attribute(nodes', j, a)
      ]_vars

\* C14's case: a name that held a value has just been removed from an Element
\* that keeps another attribute
C14_Witness ==
    /\ lastOp.op = "remove_attribute"
    /\ IsSome(lastOp.old)
    /\ InRange(nodes, lastOp.i)
    /\ lastOp.k \notin DOMAIN nodes[lastOp.i + 1].data.attributes
    /\ DOMAIN nodes[lastOp.i + 1].data.attributes # {}

----------------------------------------------------------------------------
(* Claims about the arena, under DocSpec *)

\* C15: across the Document operations the arena never shrinks, a create call
\* returns the length the arena had before it and adds one node, node 0 stays
\* the root, of variant Document, and the variant and tag name of a node at an
\* existing index never change.
C15_StableIndices ==
    [][/\ Len(nodes') >= Len(nodes)
       /\ (lastOp'.op \in {"create_element", "create_text_node"} /\ nOps' = nOps + 1) =>
            /\ lastOp'.ret = Len(nodes)
            /\ Len(nodes') = Len(nodes) + 1
            /\ nodes'[lastOp'.ret + 1].node_type =
                 (IF lastOp'.op = "create_element" THEN "Element" ELSE "Text")
       /\ nodes'[1].node_type = "Document"
       /\ \A n \in DOMAIN nodes :
            /\ nodes'[n].node_type = nodes[n].node_type
            /\ nodes'[n].data.kind = nodes[n].data.kind
            /\ nodes'[n].data.tag_name = nodes[n].data.tag_name
      ]_vars

\* C15's case: a node has just been created, at index 2 or later, in an arena
\* where a shadow root has been attached and a layout pass has run
C15_Witness ==
    /\ lastOp.op \in {"create_element", "create_text_node"}
    /\ lastOp.ret >= 2
    /\ lastOp.ret = Len(nodes) - 1
    /\ \E n \in DOMAIN nodes : IsSome(nodes[n].shadow_root)
    /\ \E n \in DOMAIN nodes : IsSome(nodes[n].layout)

----------------------------------------------------------------------------
(* Claims about the box model, under LayoutSpec *)

LayoutOf(ns, i) == Unwrap(ns[i + 1].layout)

\* The box node i is laid out against: the viewport for the root, else the
\* content box of its parent
ParentBox(ns, i) ==
    IF ns[i + 1].parent = None
    THEN [width |-> Px(viewport.width), height |-> Px(viewport.height)]
    ELSE [width |-> LayoutOf(ns, Unwrap(ns[i + 1].parent)).content_width,
          height |-> LayoutOf(ns, Unwrap(ns[i + 1].parent)).content_height]

\* What is left of a laid-out size once padding and border are taken off
RawContentWidth(l) == l.width - l.padding_left - l.padding_right - 2 * l.border_width
RawContentHeight(l) == l.height - l.padding_top - l.padding_bottom - 2 * l.border_width

\* C16: for every laid-out node content_width is
\* max(width - padding_left - padding_right - 2 * border_width, 0) and
\* content_height is max(height - padding_top - padding_bottom - 2 * border_width, 0);
\* neither is negative.
C16_ContentClamped ==
    \A n \in DOMAIN nodes :
        IsSome(nodes[n].layout) =>
            LET l == Unwrap(nodes[n].layout)
            IN  /\ l.content_width = Max(RawContentWidth(l), 0)
                /\ l.content_height = Max(RawContentHeight(l), 0)
                /\ l.content_width >= 0
                /\ l.content_height >= 0

\* C16's case: the pass has laid out a node whose padding and border exceed its
\* width and one whose padding exceeds its height
C16_Witness ==
    /\ lastOp.op = "calculate_layout_recursive"
    /\ \E n \in DOMAIN nodes :
        /\ IsSome(nodes[n].layout)
        /\ RawContentWidth(Unwrap(nodes[n].layout)) < 0
        /\ Unwrap(nodes[n].layout).content_width = 0
    /\ \E n \in DOMAIN nodes :
        /\ IsSome(nodes[n].layout)
        /\ RawContentHeight(Unwrap(nodes[n].layout)) < 0
        /\ Unwrap(nodes[n].layout).content_height = 0

\* size is what the claim gives for a style value v resolved against reference
ResolvesTo(size, v, reference) ==
    CASE v.unit = "Pixels" -> size = Px(v.n)
      [] v.unit = "Percentage" -> 100 * size = reference * v.n
      [] v.unit \in {"Auto", "Inherit"} -> size = 0

\* C17: a node laid out against a parent content box (W, H) has width p for
\* Pixels(p), W * n / 100 for Percentage(n), 0 for Auto or Inherit, and when
\* unset max(W, 100) for display Block and 100 for any other display; its height
\* is the explicit value, a percentage taken of H, and when unset 1.5 times the
\* font size for a Text node and 100 otherwise; W and H are the parent's content
\* dimensions.
C17_Dimensions ==
    lastOp.op = "calculate_layout_recursive" =>
        \A i \in Subtree(nodes, 0) :
            LET l == LayoutOf(nodes, i)
                st == styles[i + 1]
                box == ParentBox(nodes, i)
            IN  /\ IsSome(nodes[i + 1].layout)
                /\ IF IsSome(st.width) THEN ResolvesTo(l.width, Unwrap(st.width), box.width)
                   ELSE IF st.display = "Block" THEN l.width = Max(box.width, Px(100))
                   ELSE l.width = Px(100)
                /\ IF IsSome(st.height) THEN ResolvesTo(l.height, Unwrap(st.height), box.height)
                   ELSE IF nodes[i + 1].node_type = "Text" THEN 2 * l.height = 3 * l.font_size
                   ELSE l.height = Px(100)

\* C17's case: a node of width 50% laid out as 200 under a parent whose content
\* width is 400 and whose own width is larger, beside a Text node that got its
\* height from the font size
C17_Witness ==
    /\ lastOp.op = "calculate_layout_recursive"
    /\ \E i \in Subtree(nodes, 0) \ {0} :
        /\ styles[i + 1].width = Some(CssPercentage(50))
        /\ LayoutOf(nodes, i).width = Px(200)
        /\ ParentBox(nodes, i).width = Px(400)
        /\ LayoutOf(nodes, Unwrap(nodes[i + 1].parent)).width > Px(400)
    /\ \E i \in Subtree(nodes, 0) :
        /\ nodes[i + 1].node_type = "Text"
        /\ LayoutOf(nodes, i).height = Px(24)

\* The widths of the first n children in kids, added up
RECURSIVE SumWidths(_, _, _)
SumWidths(ns, kids, n) ==
    IF n = 0 THEN 0 ELSE SumWidths(ns, kids, n - 1) + LayoutOf(ns, kids[n]).width

\* C18: the i-th child of a Flex container has for x the sum of the widths of
\* the children before it, 0 for the first whatever its margin-left; its other
\* Layout fields, and the Layouts of its descendants, are those of a normal
\* layout of the child against the container's content box.
C18_FlexRow ==
    lastOp.op = "calculate_layout_recursive" =>
        \A f \in Subtree(nodes, 0) :
            styles[f + 1].display = "Flex" =>
                LET kids == nodes[f + 1].children
                    cw == LayoutOf(nodes, f).content_width
                    ch == LayoutOf(nodes, f).content_height
                IN  \A n \in DOMAIN kids :
                        LET c == kids[n]
                            normal == calculate_layout_recursive(Laid(nodes, <<>>), c, styles,
                                                                 cw, ch).nodes
                        IN  /\ LayoutOf(nodes, c).x = SumWidths(nodes, kids, n - 1)
                            /\ [LayoutOf(nodes, c) EXCEPT !.x = 0]
                                 = [NodeLayout(styles[c + 1], cw, ch, nodes[c + 1])
                                      EXCEPT !.x = 0]
                            /\ \A d \in Subtree(nodes, c) \ {c} :
                                    nodes[d + 1].layout = normal[d + 1].layout

\* C18's case: a Flex container with two children, the first with a left margin
\* and placed at 0, the second placed after it, and one of them with a child
C18_Witness ==
    /\ lastOp.op = "calculate_layout_recursive"
    /\ \E f \in Subtree(nodes, 0) :
        /\ styles[f + 1].display = "Flex"
        /\ Len(nodes[f + 1].children) = 2
        /\ LayoutOf(nodes, nodes[f + 1].children[1]).margin_left > 0
        /\ LayoutOf(nodes, nodes[f + 1].children[1]).x = 0
        /\ LayoutOf(nodes, nodes[f + 1].children[2]).x
             = LayoutOf(nodes, nodes[f + 1].children[1]).width
        /\ LayoutOf(nodes, nodes[f + 1].children[2]).x > 0
        /\ \E n \in {1, 2} : nodes[nodes[f + 1].children[n] + 1].children # <<>>

----------------------------------------------------------------------------
(* Claims about calculate_layout as a traversal, under DocSpec *)

\* The place of index i in the sequence vs, 0 when it is not there
PlaceIn(vs, i) == IF \E n \in DOMAIN vs : vs[n] = i THEN CHOOSE n \in DOMAIN vs : vs[n] = i ELSE 0

\* C19: on a tree-shaped Document and for every viewport calculate_layout
\* returns, having visited every node reachable from the root exactly once, a
\* parent before its children; afterwards every reachable node, the root and
\* Text nodes included, carries a Layout, and a node that is not reachable has
\* received none.
C19_LayoutTraversal ==
    [][(lastOp'.op = "calculate_layout" /\ nOps' = nOps + 1 /\ TreeShaped(nodes)) =>
         /\ ~panicked'
         /\ {visits'[n] : n \in DOMAIN visits'} = Subtree(nodes, 0)
         /\ \A i \in Subtree(nodes, 0) :
              /\ Occurrences(visits', i) = 1
              /\ IsSome(nodes'[i + 1].layout)
              /\ IsSome(nodes[i + 1].parent) =>
                    PlaceIn(visits', Unwrap(nodes[i + 1].parent)) < PlaceIn(visits', i)
         /\ \A n \in DOMAIN nodes :
              /\ (n - 1) \notin Subtree(nodes, 0) => nodes'[n].layout = None
              /\ [nodes'[n] EXCEPT !.layout = None] = [nodes[n] EXCEPT !.layout = None]
      ]_vars

\* C19's case: a pass against the narrow viewport over a tree with an Element
\* under the root and a Text node under that Element, visited in that order
C19_Witness ==
    /\ lastOp.op = "calculate_layout"
    /\ ~panicked
    /\ TreeShaped(nodes)
    /\ viewport.width = 64
    /\ Len(visits) = 3
    /\ nodes[visits[3] + 1].node_type = "Text"
    /\ nodes[visits[3] + 1].parent = Some(visits[2])
    /\ IsSome(nodes[visits[3] + 1].layout)

----------------------------------------------------------------------------
(* The Document mutex *)

\* A callback that stands inside its body, between lock() and its return
InBody(f) == f.pc \in {"locked", "ran", "iterating"}

\* C20: the host and every callback touch the Document only while holding the
\* one mutex; the lock is never asked for while it is held, so a call that has
\* reached its lock() finds the mutex free and obtains it and nothing panics
\* on it; the mutex is released when the callback has returned, and the host
\* has released it before the script is evaluated.
C20_LockDiscipline ==
    /\ hostPc \in {"locked", "laid"} => mutex = "host"
    /\ \A n \in DOMAIN frames : InBody(frames[n]) => mutex = "script"
    /\ \A n \in DOMAIN frames : frames[n].pc = "called" => mutex = "free"
    /\ hostPc \in {"render", "eval", "done"} /\ frames = <<>> => mutex = "free"
    /\ hostPc \in {"eval", "done"} => ~panicked

----------------------------------------------------------------------------
(* Claims about the cascade's match decision, under MatchSpec *)

\* Selector texts as a style sheet's rules hold them, trimmed
CascadeTexts ==
    {<<"a">>, <<"A">>, <<"b">>, <<"#", "x">>, <<"#", "X">>, <<".", "x">>, <<".", "y">>,
     <<"[", "k", "]">>, <<"[", "k", "=", "x", "]">>, <<"[", "i", "d", "]">>}

\* The selector engine's decision for a selector text: parse_selector, then
\* matches_selector
EngineDecision(ns, i, text) ==
    /\ parse_selector(text).kind = "Ok"
    /\ matches_selector(ns, i, parse_selector(text).sel)

\* C21: for every node and every selector text the cascade's match decision is
\* the selector engine's decision on the same node: tag names compared
\* ignoring case, id, class tokens and attribute selectors as the engine has
\* them.
C21_CascadeUsesEngine ==
    \A text \in CascadeTexts : \A i \in 0..(Len(nodes) - 1) :
        matches(nodes[i + 1], text) = EngineDecision(nodes, i, text)

----------------------------------------------------------------------------
(* Claims about parse_css on sheets of whole rule blocks, under CssSpec *)

\* A rule block as written, beside the Rule it declares
Block(selector_text, value, terminator) ==
    [text |-> selector_text \o <<"{">> \o color \o <<":">> \o value \o terminator \o <<"}">>,
     rule |-> Rule(<<selector_text>>, MapInsert(EmptyMap, color, value))]

\* The rule blocks among the pieces of the sheets
Blocks ==
    {Block(h1, blue, <<>>), Block(h1, red, <<>>), Block(h1, blue, <<";">>),
     Block(<<"p">>, red, <<";">>)}

\* The sequences of at most n rule blocks
RECURSIVE BlockSheets(_)
BlockSheets(n) ==
    IF n = 0 THEN {<<>>}
    ELSE LET shorter == BlockSheets(n - 1)
         IN  shorter \cup {Append(bs, b) : bs \in shorter, b \in Blocks}

\* The text of a sequence of rule blocks
RECURSIVE SheetText(_)
SheetText(bs) == IF bs = <<>> THEN <<>> ELSE Head(bs).text \o SheetText(Tail(bs))

\* C22: for a sheet made of N rule blocks parse_css returns N Rules in source
\* order, rule n holding the selectors and the declarations of block n: a
\* declaration block ends at its first '}', also when its last declaration
\* has no ';', and takes no text of the rule after it.
C22_OneRulePerBlock ==
    \A bs \in BlockSheets(MaxCssPieces) :
        (cpc # "start" /\ css = SheetText(bs)) =>
            rules = [n \in DOMAIN bs |-> bs[n].rule]

----------------------------------------------------------------------------
(* Claims about specified_values, under CssSpec *)

\* The rules of the sheet, by their place in it, that match the node and
\* declare color
ColorRules(node, rs) ==
    {n \in DOMAIN rs :
        /\ \E m \in DOMAIN rs[n].selectors : matches(node, rs[n].selectors[m])
        /\ color \in DOMAIN rs[n].declarations}

\* Rule m is applied before rule n: its joined selector list is the smaller
\* one, or they are equal and m stands before n in the sheet
AppliedBefore(rs, m, n) ==
    \/ StrLess(join(rs[m].selectors), join(rs[n].selectors))
    \/ join(rs[m].selectors) = join(rs[n].selectors) /\ m < n

\* C23: specified_values sets color to the color of the rule applied last
\* among the matched rules that declare it, the rules being applied in the
\* ascending order of their comma-joined selector lists and in sheet order
\* where these are equal; color is absent when no matched rule declares it;
\* every other field keeps its default.
C23_CascadeColor ==
    cpc = "styled" =>
        LET declaring == ColorRules(nodes[target + 1], rules)
        IN  /\ [style EXCEPT !.color = None] = DefaultStyle
            /\ declaring = {} => style.color = None
            /\ \A n \in declaring :
                (\A m \in declaring \ {n} : AppliedBefore(rules, m, n))
                    => style.color = Some(rules[n].declarations[color])

\* C23's case: two rules of different selector lists match the node and declare
\* different colors, and the color is that of the rule written first, which
\* sorts last
C23_Witness ==
    /\ cpc = "styled"
    /\ Len(rules) = 2
    /\ ColorRules(nodes[target + 1], rules) = {1, 2}
    /\ AppliedBefore(rules, 2, 1)
    /\ rules[1].declarations[color] # rules[2].declarations[color]
    /\ style.color = Some(rules[1].declarations[color])

----------------------------------------------------------------------------
(* Claims about parse_html's close tags and start tags, under ParserSpec *)

\* The name written at place p: the tag name characters from p on
NameAt(s, p) ==
    LET stop == {q \in p..Len(s) : ~IsTagNameChar(s[q])}
        q == IF stop = {} THEN Len(s) + 1 ELSE CHOOSE q \in stop : \A r \in stop : q <= r
    IN  SubSeq(s, p, q - 1)

\* The insertion parent is the root or an Element with a parent chain to the root
InsertionParentAttached(ns, cur) ==
    /\ IsSome(cur)
    /\ InRange(ns, Unwrap(cur))
    /\ \/ Unwrap(cur) = 0
       \/ /\ ns[Unwrap(cur) + 1].node_type = "Element"
          /\ ClimbsToRoot(ns, Unwrap(cur), Len(ns))

\* C24: on a close tag the insertion parent becomes its own parent iff it is
\* an Element whose tag name is the close tag's name, letter case included;
\* otherwise it stays; no node is created and the Document is not changed;
\* the insertion parent is at all times the root or an Element attached to
\* the tree.
C24_CloseTagPops ==
    [][/\ InsertionParentAttached(nodes', current_parent_idx')
       /\ (pc = "main" /\ IsEndTag) =>
            LET cur == Unwrap(current_parent_idx)
                name == NameAt(html, pos + 2)
            IN  /\ nodes' = nodes
                /\ current_parent_idx' =
                     IF /\ nodes[cur + 1].node_type = "Element"
                        /\ nodes[cur + 1].data.tag_name = name
                     THEN nodes[cur + 1].parent
                     ELSE current_parent_idx]_vars

\* C24's case: the text <a><a></A></a> has been read: the close tag in the
\* other case popped nothing, the one after it popped one level of the two
C24_Witness ==
    /\ pc = "done"
    /\ html = <<"<", "a", ">", "<", "a", ">", "<", "/", "A", ">", "<", "/", "a", ">">>
    /\ Len(nodes) = 3
    /\ current_parent_idx = Some(1)

\* C25: every start tag creates exactly one Element, named as the tag and
\* carrying the attributes read for it, appended as the last child of the
\* insertion parent, and that Element becomes the insertion parent, whether
\* or not the tag is written self-closing; nothing else in the Document
\* changes.
C25_StartTagPushes ==
    [][(pc = "attrs" /\ pc' = "main") =>
        LET cur == Unwrap(current_parent_idx)
            idx == Len(nodes)
        IN  /\ Len(nodes') = Len(nodes) + 1
            /\ nodes'[idx + 1] =
                 [NewNode("Element", ElementData(tag_name))
                    EXCEPT !.data.attributes = attributes, !.parent = Some(cur)]
            /\ nodes'[cur + 1] = [nodes[cur + 1] EXCEPT !.children = Append(@, idx)]
            /\ \A i \in (0..(Len(nodes) - 1)) \ {cur} : nodes'[i + 1] = nodes[i + 1]
            /\ current_parent_idx' = Some(idx)]_vars

\* C25's case: the text <b />x has been read: the self-closing b is under the
\* root, is the parent of the text after it, and is still the insertion parent
C25_Witness ==
    /\ pc = "done"
    /\ html = <<"<", "b", " ", "/", ">", "x">>
    /\ Len(nodes) = 3
    /\ nodes[1].children = <<1>>
    /\ nodes[2].data.tag_name = <<"b">>
    /\ nodes[2].children = <<2>>
    /\ nodes[3].node_type = "Text"
    /\ current_parent_idx = Some(1)

\* The place of the '>' that closes the start tag being read at place p, the
\* first '>' from p on that is not inside a quoted value (a value is quoted
\* when a quote follows its '=' at once); past the end when there is none
RECURSIVE TagClose(_, _, _)
TagClose(s, p, quote) ==
    IF p > Len(s) THEN Len(s) + 1
    ELSE IF quote # <<>>
    THEN TagClose(s, p + 1, IF s[p] = quote[1] THEN <<>> ELSE quote)
    ELSE IF s[p] = ">" THEN p
    ELSE IF s[p] \in {"'", "\""} /\ p > 1 /\ s[p - 1] = "="
    THEN TagClose(s, p + 1, <<s[p]>>)
    ELSE TagClose(s, p + 1, <<>>)

\* C26: reading a start tag's attributes never consumes text past the '>' that
\* closes the tag, the first '>' outside a quoted value: an attribute name
\* without a value swallows nothing of the markup after the tag.
C26_AttributesStayInTag ==
    [][pc = "attrs" => pos' <= TagClose(html, pos, <<>>) + 1]_vars

----------------------------------------------------------------------------
(* Claims about parse_selector's classification, under SelectorSpec *)

\* The text without the whitespace at its two ends
Trimmed(s) ==
    LET solid == {n \in DOMAIN s : ~IsWhitespace(s[n])}
    IN  IF solid = {} THEN <<>>
        ELSE SubSeq(s, CHOOSE n \in solid : \A m \in solid : n <= m,
                       CHOOSE n \in solid : \A m \in solid : m <= n)

\* The value with one pair of matching surrounding quotes removed
Unquoted(v) ==
    IF Len(v) >= 2 /\ v[1] = v[Len(v)] /\ v[1] \in {"'", "\""}
    THEN SubSeq(v, 2, Len(v) - 1)
    ELSE v

\* The selector a non-empty trimmed text stands for
Classified(s) ==
    IF s[1] = "#" THEN Selector("Id", Tail(s), <<>>)
    ELSE IF s[1] = "." THEN Selector("Class", Tail(s), <<>>)
    ELSE IF s[1] = "[" /\ s[Len(s)] = "]"
    THEN LET content == SubSeq(s, 2, Len(s) - 1)
             eqs == {n \in DOMAIN content : content[n] = "="}
         IN  IF eqs = {} THEN Selector("AttributeExists", content, <<>>)
             ELSE LET eq == CHOOSE n \in eqs : \A m \in eqs : n <= m
                  IN  Selector("Attribute", Trimmed(SubSeq(content, 1, eq - 1)),
                               Unquoted(Trimmed(SubSeq(content, eq + 1, Len(content)))))
    ELSE Selector("Element", s, <<>>)

\* C27: parse_selector classifies the trimmed text by the first rule that
\* applies: '#' first gives Id, '.' first gives Class, '[' first and ']' last
\* gives Attribute, with one pair of matching surrounding quotes taken off the
\* value, when it holds '=', else AttributeExists; anything else is an
\* Element name; Descendant and Child never come out.
C27_Classification ==
    (selector # Pending /\ Trimmed(selText) # <<>>) =>
        /\ selector = Ok(Classified(Trimmed(selText)))
        /\ selector.sel.tag \notin {"Descendant", "Child"}

----------------------------------------------------------------------------
(* Claims about the position of a node, under LayoutSpec *)

\* Node i is a child of a Flex container
FlexChild(ns, i) ==
    /\ IsSome(ns[i + 1].parent)
    /\ styles[Unwrap(ns[i + 1].parent) + 1].display = "Flex"

\* offset is the margin resolved against reference, 0 when it is unset
MarginIs(offset, margin, reference) ==
    IF IsSome(margin) THEN ResolvesTo(offset, Unwrap(margin), reference) ELSE offset = 0

\* C28: a laid-out node that is not a child of a Flex container has x equal
\* to its margin-left and y equal to its margin-top, 0 when unset, a
\* percentage taken of the parent's content width, whatever its siblings'
\* sizes and positions and its place among them.
C28_PositionIsMargin ==
    lastOp.op = "calculate_layout_recursive" =>
        \A i \in Subtree(nodes, 0) :
            ~FlexChild(nodes, i) =>
                /\ MarginIs(LayoutOf(nodes, i).x, styles[i + 1].margin_left,
                            ParentBox(nodes, i).width)
                /\ MarginIs(LayoutOf(nodes, i).y, styles[i + 1].margin_top,
                            ParentBox(nodes, i).width)

\* C28's case: the second child of the root, behind a sibling 48 wide and 100
\* high, lies at x = 16 and y = 128, half the root's content width of 256
\* (the root's content height being 100)
C28_Witness ==
    /\ lastOp.op = "calculate_layout_recursive"
    /\ nodes[1].children = <<1, 2>>
    /\ LayoutOf(nodes, 0).content_height = Px(100)
    /\ LayoutOf(nodes, 1).width = Px(48)
    /\ LayoutOf(nodes, 1).height = Px(100)
    /\ LayoutOf(nodes, 2).x = Px(16)
    /\ LayoutOf(nodes, 2).y = Px(128)

----------------------------------------------------------------------------
(* Claims about the lifetime of a Layout, under DocSpec *)

\* The arena with every layout taken away
WithoutLayouts(ns) == [n \in DOMAIN ns |-> [ns[n] EXCEPT !.layout = None]]

\* C29: a node has no layout from its creation until a layout pass visits it:
\* no other operation of the Document sets or changes a layout; and a pass
\* replaces the layouts wholesale: its result is that of the same pass over
\* the Document with all layouts taken away, and the same pass again changes
\* nothing.
C29_LayoutLifetime ==
    [][/\ visits' = <<>> => \A n \in DOMAIN nodes' : nodes'[n].layout = None
       /\ (lastOp'.op # "calculate_layout" /\ nOps' = nOps + 1) =>
            /\ \A n \in DOMAIN nodes : nodes'[n].layout = nodes[n].layout
            /\ \A n \in DOMAIN nodes' \ DOMAIN nodes : nodes'[n].layout = None
       /\ (lastOp'.op = "calculate_layout" /\ nOps' = nOps + 1 /\ ~panicked') =>
            /\ nodes' = calculate_layout(WithoutLayouts(nodes),
                                         Px(viewport'.width), Px(viewport'.height)).nodes
            /\ calculate_layout(nodes', Px(viewport'.width), Px(viewport'.height)).nodes = nodes'
      ]_vars

\* C29's case: after a pass against the wide viewport an Element was created
\* and appended under the root: the root has its layout, the Element, though
\* in the tree, has none yet
C29_Witness ==
    /\ lastOp.op = "append_child"
    /\ Len(nodes) = 2
    /\ visits = <<0>>
    /\ nodes[1].children = <<1>>
    /\ IsSome(nodes[1].layout)
    /\ Unwrap(nodes[1].layout).width = Px(256)
    /\ nodes[2].layout = None

----------------------------------------------------------------------------
(* Claims about calculate_layout's styles, under DocSpec *)

\* The Layout of a node under the default style in a viewport W wide
DefaultLayout(node, W) ==
    LET height == IF node.node_type = "Text" THEN Px(24) ELSE Px(100)
    IN  [x |-> 0, y |-> 0,
         width |-> Max(Px(W), Px(100)), height |-> height,
         content_width |-> Max(Px(W), Px(100)), content_height |-> height,
         padding_top |-> 0, padding_right |-> 0, padding_bottom |-> 0, padding_left |-> 0,
         margin_top |-> 0, margin_right |-> 0, margin_bottom |-> 0, margin_left |-> 0,
         border_width |-> 0, font_size |-> Px(16), display |-> "Block"]

====
